---- MODULE Spec2Model ----
(***************************************************************************)
(* The Orchestrator / Adapter dispatch core of aero-ai-platform            *)
(* (backend/core/orchestrator.py, backend/adapters/*.py,                   *)
(* backend/core/types.py, backend/api/routes/ai_routes.py) and its         *)
(* structured-output recovery (backend/core/concept_llm.py,                *)
(* backend/api/routes/advisor_routes.py).                                  *)
(*                                                                         *)
(* Python values are represented as follows.                               *)
(*   Optional[T]   a set with at most one element: None == {}, Some(v).    *)
(*   str           a TLA+ string; lower() and strip() are tabulated over   *)
(*                 the strings the model uses.                             *)
(*   float         temperatures are counted in tenths (0.2 is 2).          *)
(*   exception     [type, msg, arg]: the Python class, the fixed part of   *)
(*                 the message, the interpolated part.                     *)
(*   LLMRequest    an object on the heap `reqs`, named by a reference, so  *)
(*                 that aliasing between calls is visible.                 *)
(*   reply text    a sequence of atoms, see the section Text.              *)
(*   JSON value    a record of one field that names its kind.              *)
(* Orchestrator.generate is a coroutine: it runs without interruption up   *)
(* to the vendor call (action Generate) and resumes when the vendor        *)
(* answers (action Reply).  `last` records the most recent call.            *)
(***************************************************************************)
EXTENDS Integers, Sequences, FiniteSets, TLC

VARIABLES
    env,                \* os.environ: variable name -> Optional[str]
    default_provider,   \* Orchestrator.default_provider
    default_model,      \* Orchestrator.default_model
    reqs,               \* heap of LLMRequest objects: reference -> value
    orig,               \* the value each LLMRequest object was created with
    last,               \* record of the most recent call
    shown,              \* what info() returned when last called, if ever
    ctor,               \* the arguments and environment of Orchestrator(...)
    rec                 \* structured-output recovery: the text and what became of it

vars == <<env, default_provider, default_model, reqs, orig, last, shown, ctor, rec>>

----------------------------------------------------------------------------
(* Python values *)

None == {}
Some(v) == {v}
Get(o) == CHOOSE v \in o : TRUE

\* Truth value of an Optional[str]: None and "" are falsy.
Truthy(o) == o # None /\ Get(o) # ""

\* `a or b` for an Optional[str] a and a str b.
OrElse(a, b) == IF Truthy(a) THEN Get(a) ELSE b

\* os.getenv(name, default): the default only when the variable is unset.
GetEnv(e, name, default) == IF e[name] = None THEN default ELSE Get(e[name])

\* str.lower() over the provider names of the model.
Lower(s) ==
    CASE s = "OpenAI" -> "openai"
      [] s = "Claude" -> "claude"
      [] s = "CLAUDE" -> "claude"
      [] s = "Gemini" -> "gemini"
      [] OTHER -> s

\* str.strip() over the prompt strings of the model.
Strip(s) ==
    CASE s = "  " -> ""
      [] s = " \n" -> ""
      [] s = " yo " -> "yo"
      [] OTHER -> s

Exc(type, msg, arg) == [type |-> type, msg |-> msg, arg |-> arg]
Raise(e) == [tag |-> "raise", exc |-> e]
Return(v) == [tag |-> "return", val |-> v]

----------------------------------------------------------------------------
(* backend/core/types.py *)

DefaultTemperature == 2

Message(role, content) == [role |-> role, content |-> content]

EmptyMetadata == {}

LLMRequest(messages, temperature, max_tokens, metadata) ==
    [messages |-> messages, temperature |-> temperature,
     max_tokens |-> max_tokens, metadata |-> metadata]

\* LLMResponse(text=...): pydantic validates text: str, so text=None raises.
ValidationError == Exc("pydantic.ValidationError", "text: Input should be a valid string", "")

LLMResponse(text, usage, model_name, finish_reason) ==
    IF text = None
    THEN Raise(ValidationError)
    ELSE Return([text |-> Get(text), usage |-> usage,
                 model_name |-> model_name, finish_reason |-> finish_reason])

----------------------------------------------------------------------------
(* The errors the code raises for the kinds of the documented taxonomy *)

UnknownProvider(name) == Exc("ValueError", "Unknown provider: ", name)
InvalidRequest == Exc("ValueError", "No prompt text provided to Orchestrator.generate().", "")
ConfigurationError(var) == Exc("RuntimeError", " not set in environment", var)
RateLimited(cause) == Exc("RuntimeError", "Rate limit exceeded: ", cause)
AuthenticationFailed(cause) == Exc("RuntimeError", "Authentication failed: ", cause)
ConnectionFailed(cause) == Exc("RuntimeError", "Connection error: ", cause)
VendorError(cause) == Exc("RuntimeError", "OpenAI API error: ", cause)
UnexpectedError(cause) == Exc("RuntimeError", "Unexpected error: ", cause)

----------------------------------------------------------------------------
(* backend/adapters/gpt_adapter.py *)

\* As ModelDumpAll, without the messages of role system.
ModelDumpNoSystem(messages) ==
    LET kept == SelectSeq(messages, LAMBDA m : m.role # "system")
    IN  [i \in 1..Len(kept) |-> [role |-> kept[i].role, content |-> kept[i].content]]

\* `[m.model_dump() for m in req.messages]`: one dict of the fields role
\* and content for each message, in the order of the list.
ModelDumpAll(messages) ==
    [i \in 1..Len(messages) |-> [role |-> messages[i].role, content |-> messages[i].content]]

\* The extra keyword arguments of a call: none.
NoKwargs == [temperature |-> None, max_tokens |-> None]

\* As OpenAIAdapterInit, testing `api_key is None` instead of `not api_key`.
OpenAIAdapterInitNoneOnly(model, e) ==
    IF e["OPENAI_API_KEY"] = None
    THEN Raise(ConfigurationError("OPENAI_API_KEY"))
    ELSE Return([vendor |-> "openai", model |-> model])

\* OpenAIAdapter.__init__
OpenAIAdapterInit(model, e) ==
    IF ~Truthy(e["OPENAI_API_KEY"])
    THEN Raise(ConfigurationError("OPENAI_API_KEY"))
    ELSE Return([vendor |-> "openai", model |-> model])

\* OpenAIAdapter.generate up to the await: the arguments of
\* client.chat.completions.create.  req.temperature is never None, so a
\* temperature in **kwargs is never popped; max_tokens is popped from **kwargs
\* only when req.max_tokens is None.  A keyword left in **kwargs that is also
\* given by name makes the call expression raise TypeError inside the try.
OpenAIRequest(adapter, req, kwargs) ==
    IF kwargs.temperature # None \/ (req.max_tokens # None /\ kwargs.max_tokens # None)
    THEN Raise(UnexpectedError("TypeError"))
    ELSE Return([model |-> adapter.model,
                 messages |-> ModelDumpAll(req.messages),
                 temperature |-> req.temperature,
                 max_tokens |-> IF req.max_tokens # None
                                THEN req.max_tokens ELSE kwargs.max_tokens])

\* The except clauses of OpenAIAdapter.generate, in order.  RateLimitError and
\* AuthenticationError are APIError subclasses caught before it;
\* APITimeoutError is a subclass of APIConnectionError.
OpenAITranslate(cls) ==
    IF cls = "RateLimitError" THEN RateLimited(cls)
    ELSE IF cls = "AuthenticationError" THEN AuthenticationFailed(cls)
    ELSE IF cls \in {"APIConnectionError", "APITimeoutError"} THEN ConnectionFailed(cls)
    ELSE IF cls \in {"APIError", "BadRequestError", "InternalServerError"} THEN VendorError(cls)
    ELSE UnexpectedError(cls)

\* getattr(response.usage, field, 0): 0 when usage is None or has no such
\* attribute, else the attribute, which is None when the vendor sent null.
UsageField(usage, field) ==
    IF usage = None \/ field \notin DOMAIN Get(usage)
    THEN Some(0) ELSE Get(usage)[field]

\* OpenAIAdapter.generate from the vendor's answer on.
OpenAIResume(adapter, outcome) ==
    IF outcome.kind = "raise"
    THEN Raise(OpenAITranslate(outcome.cls))
    ELSE IF Len(outcome.choices) = 0
    THEN Raise(OpenAITranslate("IndexError"))
    ELSE LET choice == outcome.choices[1]
             text == IF Truthy(choice.content) THEN choice.content ELSE Some("")
             usage == [f \in {"prompt_tokens", "completion_tokens", "total_tokens"}
                         |-> UsageField(outcome.usage, f)]
         IN  IF \E f \in DOMAIN usage : usage[f] = None
             THEN Raise(OpenAITranslate("pydantic.ValidationError"))
             ELSE LET r == LLMResponse(text, [f \in DOMAIN usage |-> Get(usage[f])],
                                       Some(adapter.model), choice.finish_reason)
                  IN  IF r.tag = "raise"
                      THEN Raise(OpenAITranslate(r.exc.type))
                      ELSE r

----------------------------------------------------------------------------
(* backend/adapters/claude_adapter.py *)

ClaudeDefaultMaxTokens == 256

\* ClaudeAdapter.__init__
ClaudeAdapterInit(model, e) ==
    IF ~Truthy(e["ANTHROPIC_API_KEY"])
    THEN Raise(ConfigurationError("ANTHROPIC_API_KEY"))
    ELSE Return([vendor |-> "claude", model |-> model])

\* ClaudeAdapter.generate up to the await: the JSON payload posted.
\* `req.max_tokens or 256`: None and 0 both give 256.
ClaudeRequest(adapter, req, kwargs) ==
    Return([model |-> adapter.model,
            messages |-> ModelDumpAll(req.messages),
            temperature |-> req.temperature,
            max_tokens |-> IF req.max_tokens = None \/ req.max_tokens = Some(0)
                           THEN Some(ClaudeDefaultMaxTokens)
                           ELSE req.max_tokens])

\* ClaudeAdapter.generate from the vendor's answer on.  Nothing is caught:
\* the exception of client.post, raise_for_status, r.json(), the subscripts
\* of data["content"][0]["text"] or LLMResponse(...) reaches the caller.
ClaudeResume(adapter, outcome) ==
    IF outcome.kind = "raise"
    THEN Raise(Exc(outcome.cls, "", ""))
    ELSE IF outcome.status >= 400
    THEN Raise(Exc("httpx.HTTPStatusError", "status ", ToString(outcome.status)))
    ELSE IF outcome.body = "not json"
    THEN Raise(Exc("json.JSONDecodeError", "", ""))
    ELSE IF outcome.content = "missing"
    THEN Raise(Exc("KeyError", "content", ""))
    ELSE IF outcome.content = "null"
    THEN Raise(Exc("TypeError", "'NoneType' object is not subscriptable", ""))
    ELSE IF Len(outcome.blocks) = 0
    THEN Raise(Exc("IndexError", "list index out of range", ""))
    ELSE IF outcome.blocks[1].text = "missing"
    THEN Raise(Exc("KeyError", "text", ""))
    ELSE LLMResponse(IF outcome.blocks[1].text = "null"
                     THEN None ELSE Some(outcome.blocks[1].value),
                     [f \in {} |-> 0], Some(adapter.model), None)

AdapterRequest(adapter, req, kwargs) ==
    IF adapter.vendor = "openai" THEN OpenAIRequest(adapter, req, kwargs)
    ELSE ClaudeRequest(adapter, req, kwargs)

AdapterResume(adapter, outcome) ==
    IF adapter.vendor = "openai" THEN OpenAIResume(adapter, outcome)
    ELSE ClaudeResume(adapter, outcome)

----------------------------------------------------------------------------
(* backend/core/orchestrator.py *)

\* Orchestrator.__init__: explicit argument, else environment, else fallback.
Construct(arg_provider, arg_model, e) ==
    [default_provider |-> Lower(OrElse(arg_provider, GetEnv(e, "DEFAULT_PROVIDER", "openai"))),
     default_model |-> OrElse(arg_model, GetEnv(e, "DEFAULT_MODEL", "gpt-4o-mini"))]

\* As OrchestratorInit, refusing a default provider that is no known vendor.
OrchestratorInitChecked(arg_provider, arg_model, e) ==
    IF Construct(arg_provider, arg_model, e).default_provider \notin {"claude", "openai"}
    THEN Raise(UnknownProvider(Construct(arg_provider, arg_model, e).default_provider))
    ELSE Return(Construct(arg_provider, arg_model, e))

\* Orchestrator(default_provider, default_model): __init__ has two
\* assignments and no raise; `or`, os.getenv with a default and str.lower
\* raise nothing for the Optional[str] arguments of the signature.
OrchestratorInit(arg_provider, arg_model, e) ==
    Return(Construct(arg_provider, arg_model, e))

\* The closed set of vendor names _get_adapter dispatches on.
KnownVendors == {"claude", "openai"}

\* As GetAdapter, with OpenAI as the fallback of the dispatch.
GetAdapterFallback(provider, model, dp, dm, e) ==
    LET p == Lower(OrElse(provider, dp))
        m == OrElse(model, dm)
    IN  IF p = "claude" THEN ClaudeAdapterInit(m, e)
        ELSE OpenAIAdapterInit(m, e)

\* As GetAdapter, with the vendor's own model when the call names none.
GetAdapterVendorModel(provider, model, dp, dm, e) ==
    LET p == Lower(OrElse(provider, dp))
    IN  IF p = "claude" THEN ClaudeAdapterInit(OrElse(model, "claude-3-opus-20240229"), e)
        ELSE IF p = "openai" THEN OpenAIAdapterInit(OrElse(model, dm), e)
        ELSE Raise(UnknownProvider(p))

\* Orchestrator._get_adapter
GetAdapter(provider, model, dp, dm, e) ==
    LET p == Lower(OrElse(provider, dp))
        m == OrElse(model, dm)
    IN  IF p = "claude" THEN ClaudeAdapterInit(m, e)
        ELSE IF p = "openai" THEN OpenAIAdapterInit(m, e)
        ELSE Raise(UnknownProvider(p))

\* The positional argument `req` of generate: nothing, a str or a reference
\* to an LLMRequest object.
NoInput == [kind |-> "none", s |-> "", ref |-> ""]
StrInput(s) == [kind |-> "str", s |-> s, ref |-> ""]
RequestInput(ref) == [kind |-> "request", s |-> "", ref |-> ref]

\* As OverrideTemperature, testing `if temperature:`.
OverrideTemperatureIfTruthy(r, temperature) ==
    IF temperature # None /\ Get(temperature) # 0
    THEN [r EXCEPT !.temperature = Get(temperature)] ELSE r

\* generate, lines 54-55: `if temperature is not None: final_req.temperature = temperature`
OverrideTemperature(r, temperature) ==
    IF temperature # None THEN [r EXCEPT !.temperature = Get(temperature)] ELSE r

\* generate, lines 56-57: `if max_tokens is not None: final_req.max_tokens = max_tokens`
OverrideMaxTokens(r, max_tokens) ==
    IF max_tokens # None THEN [r EXCEPT !.max_tokens = max_tokens] ELSE r

\* As WrapText, with the stripped text as the content.
WrapTextStripped(text, temperature, max_tokens) ==
    LLMRequest(<<Message("user", Strip(text))>>,
               IF temperature # None THEN Get(temperature) ELSE DefaultTemperature,
               max_tokens, EmptyMetadata)

\* generate, lines 60-64 and 67-71: a str wrapped as one user message.
WrapText(text, temperature, max_tokens) ==
    LLMRequest(<<Message("user", text)>>,
               IF temperature # None THEN Get(temperature) ELSE DefaultTemperature,
               max_tokens, EmptyMetadata)

\* As UsableText, testing `x` instead of `x.strip()`.
UsableTextUnstripped(present, s) == present /\ s # ""

\* `isinstance(x, str) and x.strip()`
UsableText(present, s) == present /\ Strip(s) # ""

\* As Normalize, with the prompt keyword tried before the Request and the
\* positional string before the prompt keyword.
NormalizeKeywordFirst(req, prompt, temperature, max_tokens, heap) ==
    IF UsableText(req.kind = "str", req.s)
    THEN Return([final |-> WrapText(req.s, temperature, max_tokens), heap |-> heap])
    ELSE IF UsableText(prompt # None, IF prompt = None THEN "" ELSE Get(prompt))
    THEN Return([final |-> WrapText(Get(prompt), temperature, max_tokens), heap |-> heap])
    ELSE IF req.kind = "request"
    THEN LET r == OverrideMaxTokens(OverrideTemperature(heap[req.ref], temperature),
                                    max_tokens)
         IN  Return([final |-> r, heap |-> [heap EXCEPT ![req.ref] = r]])
    ELSE Raise(InvalidRequest)

\* generate, lines 52-73.  final_req is the caller's object itself, so the
\* overrides are written into the heap object.  The result is the request
\* value handed to the adapter and the heap after the call.
Normalize(req, prompt, temperature, max_tokens, heap) ==
    IF req.kind = "request"
    THEN LET r == OverrideMaxTokens(OverrideTemperature(heap[req.ref], temperature),
                                    max_tokens)
         IN  Return([final |-> r, heap |-> [heap EXCEPT ![req.ref] = r]])
    ELSE IF UsableText(prompt # None, IF prompt = None THEN "" ELSE Get(prompt))
    THEN Return([final |-> WrapText(Get(prompt), temperature, max_tokens), heap |-> heap])
    ELSE IF UsableText(req.kind = "str", req.s)
    THEN Return([final |-> WrapText(req.s, temperature, max_tokens), heap |-> heap])
    ELSE Raise(InvalidRequest)

\* As Propagate, with the adapter's error caught and replaced.
PropagateWrapped(r) ==
    IF r.tag = "raise" THEN Raise(UnexpectedError(r.exc.type)) ELSE r

\* generate, line 76: `return await adapter.generate(final_req, **kwargs)`
\* with no try around it: what the adapter returns is returned, what it
\* raises is raised.
Propagate(r) == r

----------------------------------------------------------------------------
(* Text.  A text is a sequence of atoms.  An atom is one character, or one *)
(* of the words json, null and the string literals of the section JSON,    *)
(* which no operation below looks into.                                    *)

Whitespace == {" ", "\n"}
Backslash == "\\"
Backtick == "BACKTICK"     \* the character U+0060
Fence == <<Backtick, Backtick, Backtick>>

StartsWith(s, p) == Len(s) >= Len(p) /\ SubSeq(s, 1, Len(p)) = p
EndsWith(s, p) == Len(s) >= Len(p) /\ SubSeq(s, Len(s) - Len(p) + 1, Len(s)) = p
Drop(s, n) == SubSeq(s, n + 1, Len(s))
DropLast(s, n) == SubSeq(s, 1, Len(s) - n)

\* s without its longest prefix / suffix of atoms of the set cs.
RECURSIVE DropWhile(_, _)
DropWhile(s, cs) ==
    IF s # <<>> /\ Head(s) \in cs THEN DropWhile(Tail(s), cs) ELSE s

RECURSIVE DropLastWhile(_, _)
DropLastWhile(s, cs) ==
    IF s # <<>> /\ s[Len(s)] \in cs THEN DropLastWhile(DropLast(s, 1), cs) ELSE s

\* str.strip() on a text.
TextStrip(s) == DropLastWhile(DropWhile(s, Whitespace), Whitespace)

\* str.rfind(c): the last position of c, 0 when there is none (Python: -1).
RECURSIVE RFind(_, _)
RFind(s, c) ==
    IF s = <<>> THEN 0
    ELSE IF s[Len(s)] = c THEN Len(s) ELSE RFind(DropLast(s, 1), c)

\* The part of s before a final ``` that `$` accepts: at the very end, or
\* before one newline at the very end.  tail is what follows the fence.
BeforeFinalFence(s) ==
    IF EndsWith(s, Fence)
    THEN [found |-> TRUE, head |-> DropLast(s, 3), tail |-> <<>>]
    ELSE IF EndsWith(s, Fence \o <<"\n">>)
    THEN [found |-> TRUE, head |-> DropLast(s, 4), tail |-> <<"\n">>]
    ELSE [found |-> FALSE, head |-> s, tail |-> <<>>]

----------------------------------------------------------------------------
(* backend/api/routes/advisor_routes.py: _strip_code_fences *)

\* re.sub(r"^```(?:json)?\s*", "", s)
AdvisorSubLeading(s) ==
    IF ~StartsWith(s, Fence) THEN s
    ELSE LET r == Drop(s, 3)
         IN  DropWhile(IF r # <<>> /\ Head(r) = "json" THEN Tail(r) ELSE r, Whitespace)

\* re.sub(r"\s*```$", "", s)
AdvisorSubTrailing(s) ==
    LET b == BeforeFinalFence(s)
    IN  IF b.found THEN DropLastWhile(b.head, Whitespace) \o b.tail ELSE s

\* _strip_code_fences of advisor_routes.py
AdvisorStripCodeFences(s) ==
    LET t == TextStrip(s)
    IN  TextStrip(IF StartsWith(t, Fence)
                  THEN AdvisorSubTrailing(AdvisorSubLeading(t)) ELSE t)

----------------------------------------------------------------------------
(* backend/core/concept_llm.py: _strip_code_fences.  Its patterns are      *)
(* written r"...\\s*...": a backslash character followed by any number of  *)
(* letters s, where those of advisor_routes.py have the whitespace class. *)

\* re.sub(r"^```(?:json)?\\s*", "", s)
ConceptSubLeading(s) ==
    IF ~StartsWith(s, Fence) THEN s
    ELSE LET r == Drop(s, 3)
             q == IF Len(r) >= 2 /\ r[1] = "json" /\ r[2] = Backslash THEN Tail(r) ELSE r
         IN  IF q # <<>> /\ Head(q) = Backslash THEN DropWhile(Tail(q), {"s"}) ELSE s

\* re.sub(r"\\s*```$", "", s)
ConceptSubTrailing(s) ==
    LET b == BeforeFinalFence(s)
        h == DropLastWhile(b.head, {"s"})
    IN  IF b.found /\ h # <<>> /\ h[Len(h)] = Backslash
        THEN DropLast(h, 1) \o b.tail ELSE s

\* _strip_code_fences of concept_llm.py
ConceptStripCodeFences(s) ==
    LET t == TextStrip(s)
    IN  TextStrip(IF StartsWith(t, Fence)
                  THEN ConceptSubTrailing(ConceptSubLeading(t)) ELSE t)

----------------------------------------------------------------------------
(* JSON.  A value is a number, a string, null, a list or an object; an     *)
(* object (a Python dict) is the sequence of its members in insertion      *)
(* order, with no key twice.                                               *)

JNum(n) == [num |-> n]
JStr(x) == [str |-> x]
JNull == [null |-> TRUE]
JArr(xs) == [arr |-> xs]
JObj(ms) == [obj |-> ms]
Member(k, v) == [key |-> k, value |-> v]

IsObj(v) == DOMAIN v = {"obj"}

\* The strings of the JSON texts of the model, the string literals that
\* denote them and the strings the literals denote.
Strings == {"a", "b", "launch_sites", "bom", "report_md", "answer_md"}
Quote(x) ==
    CASE x = "a" -> "\"a\""
      [] x = "b" -> "\"b\""
      [] x = "launch_sites" -> "\"launch_sites\""
      [] x = "bom" -> "\"bom\""
      [] x = "report_md" -> "\"report_md\""
      [] x = "answer_md" -> "\"answer_md\""
StringAtoms == {Quote(x) : x \in Strings}
Unquote(a) == CHOOSE x \in Strings : Quote(x) = a

\* dict[k] = v: the value replaced where the key is, else a new member.
Put(ms, k, v) ==
    IF \E i \in 1..Len(ms) : ms[i].key = k
    THEN [i \in 1..Len(ms) |-> IF ms[i].key = k THEN Member(k, v) ELSE ms[i]]
    ELSE Append(ms, Member(k, v))

HasKey(ms, k) == \E i \in 1..Len(ms) : ms[i].key = k
Lookup(ms, k) == ms[CHOOSE i \in 1..Len(ms) : ms[i].key = k].value

\* dict.setdefault(k, v)
SetDefault(ms, k, v) == IF HasKey(ms, k) THEN ms ELSE Append(ms, Member(k, v))

\* The first position from i on that holds no whitespace.
RECURSIVE SkipWs(_, _)
SkipWs(s, i) ==
    IF i <= Len(s) /\ s[i] \in Whitespace THEN SkipWs(s, i + 1) ELSE i

Parsed(v, next) == [ok |-> TRUE, val |-> v, next |-> next]
NotParsed == [ok |-> FALSE, val |-> JNull, next |-> 0]

\* The JSON grammar: the value that starts at position i, and the items of
\* an object (close is the closing brace) or of a list (close is the closing
\* bracket) from position i on, acc being those read so far.  An item of an
\* object is a string literal, a colon and a value; an item of a list is a
\* value.
RECURSIVE ParseValue(_, _)
RECURSIVE ParseItems(_, _, _, _)

ParseValue(s, i) ==
    IF i > Len(s) THEN NotParsed
    ELSE IF s[i] = "1" THEN Parsed(JNum(1), i + 1)
    ELSE IF s[i] = "null" THEN Parsed(JNull, i + 1)
    ELSE IF s[i] \in StringAtoms THEN Parsed(JStr(Unquote(s[i])), i + 1)
    ELSE IF s[i] \in {"{", "["}
    THEN LET close == IF s[i] = "{" THEN "}" ELSE "]"
             j == SkipWs(s, i + 1)
         IN  IF j <= Len(s) /\ s[j] = close
             THEN Parsed(IF close = "}" THEN JObj(<<>>) ELSE JArr(<<>>), j + 1)
             ELSE ParseItems(s, j, <<>>, close)
    ELSE NotParsed

ParseItems(s, i, acc, close) ==
    LET keyed == close = "}"
        Rest(read, after) ==
            IF after > Len(s) THEN NotParsed
            ELSE IF s[after] = close
            THEN Parsed(IF keyed THEN JObj(read) ELSE JArr(read), after + 1)
            ELSE IF s[after] = ","
            THEN ParseItems(s, SkipWs(s, after + 1), read, close)
            ELSE NotParsed
        Item(v) ==
            IF ~v.ok THEN NotParsed
            ELSE Rest(IF keyed THEN Put(acc, Unquote(s[i]), v.val) ELSE Append(acc, v.val),
                      SkipWs(s, v.next))
        Value(colon) ==
            IF keyed /\ (colon > Len(s) \/ s[colon] # ":") THEN NotParsed
            ELSE Item(ParseValue(s, IF keyed THEN SkipWs(s, colon + 1) ELSE i))
    IN  IF keyed /\ (i > Len(s) \/ s[i] \notin StringAtoms) THEN NotParsed
        ELSE Value(SkipWs(s, i + 1))

JSONDecodeError == Exc("json.JSONDecodeError", "", "")

\* json.loads: one value, whitespace around it allowed, nothing after it.
JsonLoads(s) ==
    LET Whole(v) == IF v.ok /\ SkipWs(s, v.next) = Len(s) + 1
                    THEN Return(v.val) ELSE Raise(JSONDecodeError)
    IN  Whole(ParseValue(s, SkipWs(s, 1)))

\* json.dumps with its default separators ", " and ": ", for the values
\* json.loads gives here (the one number is 1): the items of an object
\* (keyed) or of a list, and the value.
RECURSIVE JsonDumps(_)
RECURSIVE DumpItems(_, _)
DumpItems(xs, keyed) ==
    IF xs = <<>> THEN <<>>
    ELSE (IF keyed THEN <<Quote(xs[1].key), ":", " ">> ELSE <<>>)
         \o JsonDumps(IF keyed THEN xs[1].value ELSE xs[1])
         \o (IF Len(xs) > 1 THEN <<",", " ">> ELSE <<>>) \o DumpItems(Tail(xs), keyed)

JsonDumps(v) ==
    IF DOMAIN v = {"num"} THEN <<"1">>
    ELSE IF DOMAIN v = {"str"} THEN <<Quote(v.str)>>
    ELSE IF DOMAIN v = {"null"} THEN <<"null">>
    ELSE LET keyed == DOMAIN v = {"obj"}
         IN  <<IF keyed THEN "{" ELSE "[">>
             \o DumpItems(IF keyed THEN v.obj ELSE v.arr, keyed)
             \o <<IF keyed THEN "}" ELSE "]">>

----------------------------------------------------------------------------
(* Structured-output recovery: backend/core/concept_llm.py and             *)
(* backend/api/routes/advisor_routes.py                                    *)

\* As SafeJsonLoad, letting the exception of json.loads through.
SafeJsonLoadUnguarded(s) ==
    LET Loaded(r) == IF r.tag = "raise" THEN r
                     ELSE Return(IF r.val = JNull THEN None ELSE Some(r.val))
    IN  Loaded(JsonLoads(s))

\* _safe_json_load of concept_llm.py: the value, None when json.loads
\* raises; the JSON text null is the Python value None as well.
SafeJsonLoad(s) ==
    LET Loaded(r) == Return(IF r.tag = "raise" \/ r.val = JNull THEN None ELSE Some(r.val))
    IN  Loaded(JsonLoads(s))

\* _safe_json of advisor_routes.py: the value, {} when json.loads raises.
SafeJson(s) ==
    LET Loaded(r) == IF r.tag = "raise" THEN JObj(<<>>) ELSE r.val
    IN  Loaded(JsonLoads(s))

\* As ConceptParse, without the second attempt.
ConceptParseOnce(txt) == SafeJsonLoad(txt)

\* ai_compose_concept, lines 188-192: the text parsed, and when that
\* gives None, the text up to its last closing brace parsed.
ConceptParse(txt) ==
    LET Again(data, last_brace) ==
            IF data.tag = "return" /\ data.val = None /\ last_brace # 0
            THEN SafeJsonLoad(SubSeq(txt, 1, last_brace))
            ELSE data
    IN  Again(SafeJsonLoad(txt), RFind(txt, "}"))

EmptyBom ==
    JObj(<<Member("currency", JStr("USD")), Member("items", JArr(<<>>)),
           Member("total_est_cost", JNum(0))>>)

\* As Skeleton, with nothing in it.
SkeletonEmpty == <<>>

\* ai_compose_concept, lines 196-202: the skeleton returned when the reply
\* gave no JSON object.
Skeleton ==
    <<Member("note", JStr("AI-Compose failed to return valid JSON")),
      Member("launch_sites", JArr(<<>>)),
      Member("lunar_sites", JArr(<<>>)),
      Member("bom", EmptyBom),
      Member("citations", JArr(<<>>))>>

\* ai_compose_concept, lines 207-219: the expected keys back-filled.
BackFillDefaults ==
    <<Member("launch_sites", JArr(<<>>)), Member("lunar_sites", JArr(<<>>)),
      Member("bom", EmptyBom), Member("citations", JArr(<<>>)),
      Member("report_md", JNull), Member("assumptions", JArr(<<>>)),
      Member("risks", JArr(<<>>)), Member("alternatives", JArr(<<>>)),
      Member("next_steps", JArr(<<>>)), Member("key_numbers", JArr(<<>>)),
      Member("regulatory_flags", JArr(<<>>)), Member("ops_checklist", JArr(<<>>))>>

RECURSIVE BackFill(_, _)
BackFill(out, defaults) ==
    IF defaults = <<>> THEN out
    ELSE BackFill(SetDefault(out, defaults[1].key, defaults[1].value), Tail(defaults))

\* ai_compose_concept, line 194: `data is None or not isinstance(data, dict)`
UseSkeleton(data) == data = None \/ ~IsObj(Get(data))

\* ai_compose_concept from text_payload on, lines 186-219: the text
\* recovery worked on, what the parse gave and the dict returned, or the
\* exception raised.
ComposeFromText(text_payload) ==
    LET Composed(txt, data) ==
            IF data.tag = "raise" THEN data
            ELSE Return([txt |-> txt, data |-> data.val,
                         out |-> BackFill(IF UseSkeleton(data.val) THEN Skeleton
                                          ELSE Get(data.val).obj,
                                          BackFillDefaults)])
        From(txt) == Composed(txt, ConceptParse(txt))
    IN  From(TextStrip(ConceptStripCodeFences(text_payload)))

\* repr of a str whose text has no single quote: the text between single
\* quotes, a newline written as backslash n, a backslash doubled.
RECURSIVE Escaped(_)
Escaped(t) ==
    IF t = <<>> THEN <<>>
    ELSE (IF Head(t) = "\n" THEN <<Backslash, "n">>
          ELSE IF Head(t) = Backslash THEN <<Backslash, Backslash>>
          ELSE <<Head(t)>>) \o Escaped(Tail(t))

\* str(res) of an LLMResponse (pydantic BaseModel.__str__): the fields as
\* name=repr(value), separated by spaces.  text is the text of the reply;
\* the repr of a dict is its items between braces, that of None is None.
StrOfResponse(res, text) ==
    <<"text=", "'">> \o Escaped(text) \o <<"'", " ", "usage=", "{">>
    \o (IF DOMAIN res.usage = {} THEN <<>>
        ELSE <<"'prompt_tokens': n, 'completion_tokens': n, 'total_tokens': n">>)
    \o <<"}", " ", "model_name=">>
    \o (IF res.model_name = None THEN <<"None">> ELSE <<"'", Get(res.model_name), "'">>)
    \o <<" ", "finish_reason=">>
    \o (IF res.finish_reason = None THEN <<"None">>
        ELSE <<"'", Get(res.finish_reason), "'">>)

\* ai_compose_concept, line 185:
\* `res.get("text") if isinstance(res, dict) else str(res)`, and the
\* `text_payload or ""` of line 186.  res is a Python object, its class
\* and its value; text is the text it holds.
TextPayload(res, text) ==
    IF res.class = "dict"
    THEN (IF "text" \in DOMAIN res.value THEN text ELSE <<>>)
    ELSE StrOfResponse(res.value, text)

\* ask of advisor_routes.py, lines 80-81, from the reply text on:
\* `parsed = _safe_json(_strip_code_fences(raw))`
AdvisorParse(text) ==
    LET From(txt) == [txt |-> txt, parsed |-> SafeJson(txt)]
    IN  From(AdvisorStripCodeFences(TextStrip(text)))

----------------------------------------------------------------------------
(* State *)

EnvNames == {"OPENAI_API_KEY", "ANTHROPIC_API_KEY", "DEFAULT_PROVIDER", "DEFAULT_MODEL"}

\* The record of an operation before it has done anything.
Blank ==
    [op |-> "none",             \* "generate", "chat", "adapter", "adapter.generate"
     req |-> NoInput, prompt |-> None, temperature |-> None,
     kwargs |-> NoKwargs,       \* the extra keyword arguments of adapter.generate
     max_tokens |-> None, provider |-> None, model |-> None,
     was |-> None,              \* value of the Request argument when called
     pc |-> "idle",             \* "awaiting", "returned", "raised"
     adapter |-> None,          \* the adapter constructed for the call
     forwarded |-> None,        \* the request passed to adapter.generate
     sent |-> None,             \* what the adapter sent to the vendor
     calls |-> 0,               \* outbound vendor calls made by the operation
     outcome |-> None,          \* the vendor's answer
     adapter_error |-> None,    \* the exception adapter.generate raised
     error |-> None,            \* the exception that reached the caller
     result |-> None,           \* the LLMResponse returned
     http |-> None]             \* the HTTP response of the route handler

\* The caller's Request of backend/tests/test_orch.py.
TestRequest ==
    LLMRequest(<<Message("system", "You are terse."), Message("user", "Say 'ok'.")>>,
               DefaultTemperature, Some(10), EmptyMetadata)

\* The parts a reply text is put together from: whitespace, an opening
\* fence, a newline or nothing on either side of the body, a closing fence
\* and what trails.  obj is the object the body is the json.dumps of, if any.
NoParts == [lead |-> <<>>, open |-> <<>>, gap |-> <<>>, body |-> <<>>,
            close |-> <<>>, noise |-> <<>>, obj |-> None]

Assemble(parts) ==
    parts.lead \o parts.open \o parts.gap \o parts.body \o parts.gap
    \o parts.close \o parts.noise

\* The record of recovery before anything is done to the reply text.
RecoveryOf(parts) ==
    [op |-> "none",            \* "strip", "compose", "advise"
     impl |-> "none",          \* "concept", "advisor"
     parts |-> parts,
     input |-> Assemble(parts),
     text |-> Assemble(parts), \* the text after the last operation
     prev |-> <<>>,            \* the text before the last operation
     applied |-> 0,            \* how often the fences were stripped
     parsed |-> None,          \* what parsing gave
     out |-> None,             \* the dict ai_compose_concept returned
     error |-> None]           \* the exception that reached the caller

\* The state after Orchestrator(arg_provider, arg_model) in environment e,
\* with the caller holding one LLMRequest object of value r.
InitWith(e, arg_provider, arg_model, r) ==
    /\ env = e
    /\ default_provider = Construct(arg_provider, arg_model, e).default_provider
    /\ default_model = Construct(arg_provider, arg_model, e).default_model
    /\ reqs = [ref \in {"caller"} |-> r]
    /\ orig = [ref \in {"caller"} |-> r]
    /\ last = Blank
    /\ shown = None
    /\ ctor = [default_provider |-> arg_provider, default_model |-> arg_model,
               DEFAULT_PROVIDER |-> e["DEFAULT_PROVIDER"],
               DEFAULT_MODEL |-> e["DEFAULT_MODEL"],
               error |-> None]

\* No reply text at hand.
NoRecovery == RecoveryOf(NoParts)

----------------------------------------------------------------------------
(* Operations *)

\* The process environment changes (os.environ, outside the program).
SetEnv(name, value) ==
    /\ env[name] # value
    /\ env' = [env EXCEPT ![name] = value]
    /\ UNCHANGED <<default_provider, default_model, reqs, orig, last, shown, ctor, rec>>

\* The caller's objects of a heap: an object local to a handler is gone
\* when the handler is.
Kept(heap) == [ref \in DOMAIN reqs |-> heap[ref]]

\* fastapi.HTTPException(status_code, detail) and the response of a handler
\* that returns a body.
HTTPException(status_code, detail) ==
    [status |-> status_code, detail |-> Some(detail), body |-> None]
Success(body) == [status |-> 200, detail |-> None, body |-> Some(body)]

\* As ChatRespond, answering an error with a success body of empty text.
ChatRespondSwallowing(r) ==
    IF r.tag = "raise"
    THEN Success([text |-> "", usage |-> [f \in {} |-> 0],
                  model_name |-> None, finish_reason |-> None])
    ELSE Success([text |-> r.val.text, usage |-> r.val.usage,
                  model_name |-> r.val.model_name,
                  finish_reason |-> r.val.finish_reason])

\* chat, lines 35-38: the body of the response is resp.model_dump(), a
\* dict of the four fields; any exception becomes
\* HTTPException(500, detail=str(e)), str(e) being the message of the
\* exception without its class.
ChatRespond(r) ==
    IF r.tag = "raise"
    THEN HTTPException(500, [msg |-> r.exc.msg, arg |-> r.exc.arg])
    ELSE Success([text |-> r.val.text, usage |-> r.val.usage,
                  model_name |-> r.val.model_name,
                  finish_reason |-> r.val.finish_reason])

\* The record of a call that has ended, with what its route handler, if it
\* was made by one, answers.
Respond(c) ==
    IF c.op # "chat" \/ c.pc \notin {"raised", "returned"} THEN c
    ELSE [c EXCEPT !.http = Some(ChatRespond(IF c.pc = "raised"
                                             THEN Raise(Get(c.error))
                                             ELSE Return(Get(c.result))))]

\* Orchestrator.generate up to the vendor call, on behalf of operation op,
\* of the Orchestrator whose defaults are dp and dm.
Start(op, req, prompt, temperature, max_tokens, provider, model, dp, dm, heap) ==
    LET call == [Blank EXCEPT !.op = op, !.req = req, !.prompt = prompt,
                              !.temperature = temperature, !.max_tokens = max_tokens,
                              !.provider = provider, !.model = model,
                              !.was = IF req.kind = "request"
                                      THEN Some(heap[req.ref]) ELSE None]
        a == GetAdapter(provider, model, dp, dm, env)
    IN  IF a.tag = "raise"
        THEN /\ last' = Respond([call EXCEPT !.pc = "raised", !.error = Some(a.exc)])
             /\ reqs' = Kept(heap)
        ELSE LET n == Normalize(req, prompt, temperature, max_tokens, heap)
             IN  IF n.tag = "raise"
                 THEN /\ last' = Respond([call EXCEPT !.pc = "raised",
                                                      !.adapter = Some(a.val),
                                                      !.error = Some(n.exc)])
                      /\ reqs' = Kept(heap)
                 ELSE LET q == AdapterRequest(a.val, n.val.final, NoKwargs)
                      IN  /\ reqs' = Kept(n.val.heap)
                          /\ last' = IF q.tag = "raise"
                                     THEN Respond(
                                          [call EXCEPT !.pc = "raised",
                                                       !.adapter = Some(a.val),
                                                       !.forwarded = Some(n.val.final),
                                                       !.adapter_error = Some(q.exc),
                                                       !.error = Some(Propagate(q).exc)])
                                     ELSE [call EXCEPT !.pc = "awaiting",
                                                       !.adapter = Some(a.val),
                                                       !.forwarded = Some(n.val.final),
                                                       !.sent = Some(q.val),
                                                       !.calls = 1]

\* await orch.generate(req, prompt=..., temperature=..., ...)
Generate(req, prompt, temperature, max_tokens, provider, model) ==
    /\ Start("generate", req, prompt, temperature, max_tokens, provider, model,
             default_provider, default_model, reqs)
    /\ UNCHANGED <<env, default_provider, default_model, orig, shown, ctor, rec>>

\* POST /ai/chat (ai_routes.chat): a fresh LLMRequest built from the body.
Chat(body_prompt, body_temperature, body_max_tokens, provider, model) ==
    LET r == LLMRequest(<<Message("user", body_prompt)>>,
                        IF body_temperature # None THEN Get(body_temperature)
                        ELSE DefaultTemperature,
                        body_max_tokens, EmptyMetadata)
    IN  /\ Start("chat", RequestInput("chat"), None, None, None, provider, model,
                 default_provider, default_model,
                 [ref \in DOMAIN reqs \cup {"chat"} |->
                     IF ref = "chat" THEN r ELSE reqs[ref]])
        /\ UNCHANGED <<env, default_provider, default_model, orig, shown, ctor, rec>>

\* As Reply, with the vendor call made again after a failure of the vendor.
ReplyWithRetry(outcome) ==
    /\ last.pc = "awaiting"
    /\ LET a == AdapterResume(Get(last.adapter), outcome)
           r == Propagate(a)
       IN  last' = IF outcome.kind = "raise" /\ last.calls < 2
                   THEN [last EXCEPT !.calls = @ + 1]
                   ELSE IF r.tag = "raise"
                   THEN [last EXCEPT !.pc = "raised", !.outcome = Some(outcome),
                                     !.adapter_error = Some(a.exc),
                                     !.error = Some(r.exc)]
                   ELSE [last EXCEPT !.pc = "returned", !.outcome = Some(outcome),
                                     !.result = Some(r.val)]
    /\ UNCHANGED <<env, default_provider, default_model, reqs, orig, shown, ctor, rec>>

\* The vendor answers the call in flight and the coroutine runs to its end:
\* the adapter makes no further vendor call, and the route handler that
\* awaited the call answers.
Reply(outcome) ==
    /\ last.pc = "awaiting"
    /\ LET a == AdapterResume(Get(last.adapter), outcome)
           r == Propagate(a)
       IN  last' = Respond(
                   IF r.tag = "raise"
                   THEN [last EXCEPT !.pc = "raised", !.outcome = Some(outcome),
                                     !.adapter_error = Some(a.exc),
                                     !.error = Some(r.exc)]
                   ELSE [last EXCEPT !.pc = "returned", !.outcome = Some(outcome),
                                     !.result = Some(r.val)])
    /\ UNCHANGED <<env, default_provider, default_model, reqs, orig, shown, ctor, rec>>

\* OpenAIAdapter(model) / ClaudeAdapter(model) constructed directly.
ConstructAdapter(vendor, model) ==
    LET a == IF vendor = "openai" THEN OpenAIAdapterInit(model, env)
             ELSE ClaudeAdapterInit(model, env)
    IN  /\ last' = IF a.tag = "raise"
                   THEN [Blank EXCEPT !.op = "adapter", !.provider = Some(vendor),
                                      !.model = Some(model), !.pc = "raised",
                                      !.error = Some(a.exc)]
                   ELSE [Blank EXCEPT !.op = "adapter", !.provider = Some(vendor),
                                      !.model = Some(model), !.pc = "returned",
                                      !.adapter = Some(a.val)]
        /\ UNCHANGED <<env, default_provider, default_model, reqs, orig, shown, ctor, rec>>

\* orch = Orchestrator(arg_provider, arg_model) in the environment of the
\* moment, as ask and ai_compose_concept do on every request: the new
\* instance takes the place of the old one, unless __init__ raises.
NewOrchestrator(arg_provider, arg_model) ==
    LET o == OrchestratorInit(arg_provider, arg_model, env)
        made == [default_provider |-> arg_provider, default_model |-> arg_model,
                 DEFAULT_PROVIDER |-> env["DEFAULT_PROVIDER"],
                 DEFAULT_MODEL |-> env["DEFAULT_MODEL"],
                 error |-> None]
    IN  /\ ctor' = IF o.tag = "raise" THEN [made EXCEPT !.error = Some(o.exc)] ELSE made
        /\ default_provider' = IF o.tag = "raise" THEN default_provider
                               ELSE o.val.default_provider
        /\ default_model' = IF o.tag = "raise" THEN default_model
                            ELSE o.val.default_model
        /\ shown' = None
        /\ UNCHANGED <<env, reqs, orig, last, rec>>

\* adapter.generate(req, **kwargs) called on the adapter constructed last,
\* up to the vendor call; r is the value of the LLMRequest passed.
InvokeAdapter(r, kwargs) ==
    /\ last.op = "adapter"
    /\ last.pc = "returned"
    /\ LET q == AdapterRequest(Get(last.adapter), r, kwargs)
           call == [last EXCEPT !.op = "adapter.generate", !.kwargs = kwargs,
                                !.forwarded = Some(r)]
       IN  last' = IF q.tag = "raise"
                   THEN [call EXCEPT !.pc = "raised", !.adapter_error = Some(q.exc),
                                     !.error = Some(q.exc)]
                   ELSE [call EXCEPT !.pc = "awaiting", !.sent = Some(q.val),
                                     !.calls = 1]
    /\ UNCHANGED <<env, default_provider, default_model, reqs, orig, shown, ctor, rec>>

\* ai_compose_concept, lines 177-182, up to the vendor call:
\* orch = Orchestrator(); orch.generate(prompt=prompt, temperature=0.3),
\* the prompt of _build_prompt being a text that is never blank.
\* Nothing is caught: what generate raises leaves ai_compose_concept.
ComposeStart ==
    /\ rec.op = "none"
    /\ LET orch == OrchestratorInit(None, None, env).val
       IN  Start("compose", NoInput, Some("Mission concept"), Some(3), None, None, None,
                 orch.default_provider, orch.default_model, reqs)
    /\ rec' = IF last'.pc = "raised"
              THEN [rec EXCEPT !.op = "compose", !.impl = "concept", !.error = last'.error]
              ELSE rec
    /\ UNCHANGED <<env, default_provider, default_model, orig, shown, ctor>>

\* ai_compose_concept from the vendor's answer on, lines 182-231: the
\* awaited generate returns the adapter's LLMResponse or raises; the text
\* recovery works on is taken from the result by line 185.  The text of
\* the vendor's reply, when it is not empty, is rec.input.
ComposeResume(outcome) ==
    /\ last.op = "compose"
    /\ last.pc = "awaiting"
    /\ LET a == AdapterResume(Get(last.adapter), outcome)
           r == Propagate(a)
       IN  IF r.tag = "raise"
           THEN /\ last' = [last EXCEPT !.pc = "raised", !.outcome = Some(outcome),
                                        !.adapter_error = Some(a.exc),
                                        !.error = Some(r.exc)]
                /\ rec' = [rec EXCEPT !.op = "compose", !.impl = "concept",
                                      !.error = Some(r.exc)]
           ELSE LET text == IF r.val.text = "" THEN <<>> ELSE rec.input
                    c == ComposeFromText(TextPayload([class |-> "LLMResponse", value |-> r.val], text))
                IN  /\ last' = [last EXCEPT !.pc = "returned", !.outcome = Some(outcome),
                                            !.result = Some(r.val)]
                    /\ rec' = IF c.tag = "raise"
                              THEN [rec EXCEPT !.op = "compose", !.impl = "concept",
                                               !.error = Some(c.exc)]
                              ELSE [rec EXCEPT !.op = "compose", !.impl = "concept",
                                               !.prev = text, !.text = c.val.txt,
                                               !.parsed = c.val.data,
                                               !.out = Some(c.val.out)]
    /\ UNCHANGED <<env, default_provider, default_model, reqs, orig, shown, ctor>>

\* ask, lines 80-93, from llm on; text is the text llm holds.  ask is a
\* plain def, so llm is whatever the call of line 79 returned.  `not
\* parsed` holds of null, 0, "", [] and {}.
\* `llm.get` exists on a dict only; `"answer_md" not in parsed` raises
\* TypeError for a number; AdvisorAnswer(**parsed) wants a str answer_md.
\* Every exception becomes HTTPException(400, f"Advisor failed: {e}").
AskRespond(llm, text) ==
    IF llm.class # "dict"
    THEN HTTPException(400, [msg |-> "Advisor failed: ",
                             arg |-> "object has no attribute 'get'"])
    ELSE LET raw == TextStrip(IF "text" \in DOMAIN llm.value THEN text ELSE <<>>)
             parsed == AdvisorParse(raw).parsed
             fallback == [answer_md |-> IF raw = <<>> THEN <<"_No advisor output._">> ELSE raw,
                          actions |-> <<>>, clarifying_questions |-> <<>>]
         IN  IF parsed \in {JNull, JNum(0), JStr(""), JArr(<<>>), JObj(<<>>)}
                \/ DOMAIN parsed \in {{"str"}, {"arr"}}
             THEN Success([answer |-> fallback])
             ELSE IF ~IsObj(parsed)
             THEN HTTPException(400, [msg |-> "Advisor failed: ", arg |-> "TypeError"])
             ELSE IF ~HasKey(parsed.obj, "answer_md")
             THEN Success([answer |-> fallback])
             ELSE IF DOMAIN Lookup(parsed.obj, "answer_md") # {"str"}
                     \/ \E i \in 1..Len(parsed.obj) :
                            parsed.obj[i].key \notin {"answer_md", "actions",
                                                      "clarifying_questions"}
             THEN HTTPException(400, [msg |-> "Advisor failed: ",
                                      arg |-> "pydantic.ValidationError"])
             ELSE Success([answer |->
                            [answer_md |-> <<Lookup(parsed.obj, "answer_md").str>>,
                             actions |-> <<>>, clarifying_questions |-> <<>>]])

\* POST /advisor/ask (advisor_routes.ask), the whole handler.  Line 79
\* calls the coroutine function orch.generate without await: no line of
\* generate runs, no adapter is constructed, no vendor is called, and llm
\* is the coroutine object.
Ask(model) ==
    LET orch == OrchestratorInit(None, None, env).val
        llm == [class |-> "coroutine", value |-> [provider |-> orch.default_provider]]
        http == AskRespond(llm, rec.input)
    IN  /\ last' = [Blank EXCEPT !.op = "ask", !.prompt = Some("You are an aerospace mission advisor."),
                                 !.temperature = Some(3), !.model = model,
                                 !.pc = IF http.status = 200 THEN "returned" ELSE "raised",
                                 !.http = Some(http)]
        /\ UNCHANGED <<env, default_provider, default_model, reqs, orig, shown, ctor, rec>>

\* As Info, resolving the defaults from the environment when called.
InfoFromEnvironment ==
    /\ shown' = Some(Construct(None, None, env))
    /\ UNCHANGED <<env, default_provider, default_model, reqs, orig, last, ctor, rec>>

\* Orchestrator.info
Info ==
    /\ shown' = Some([default_provider |-> default_provider,
                      default_model |-> default_model])
    /\ UNCHANGED <<env, default_provider, default_model, reqs, orig, last, ctor, rec>>

\* How often the fences of one text are stripped.
MaxApplications == 2

\* _strip_code_fences(text), of concept_llm.py or of advisor_routes.py,
\* applied to the text at hand.
StripFormatting(impl) ==
    /\ rec.op \in {"none", "strip"}
    /\ rec.op = "strip" => rec.impl = impl
    /\ rec.applied < MaxApplications
    /\ rec' = [rec EXCEPT !.op = "strip", !.impl = impl,
                          !.prev = rec.text,
                          !.text = IF impl = "advisor"
                                   THEN AdvisorStripCodeFences(rec.text)
                                   ELSE ConceptStripCodeFences(rec.text),
                          !.applied = @ + 1]
    /\ UNCHANGED <<env, default_provider, default_model, reqs, orig, last, shown, ctor>>

\* ai_compose_concept once the reply text is at hand.
ComposeConcept ==
    /\ rec.op = "none"
    /\ LET Recovered(r) ==
               IF r.tag = "raise"
               THEN [rec EXCEPT !.op = "compose", !.impl = "concept",
                                !.error = Some(r.exc)]
               ELSE [rec EXCEPT !.op = "compose", !.impl = "concept",
                                !.prev = rec.text, !.text = r.val.txt,
                                !.parsed = r.val.data, !.out = Some(r.val.out)]
       IN  rec' = Recovered(ComposeFromText(rec.input))
    /\ UNCHANGED <<env, default_provider, default_model, reqs, orig, last, shown, ctor>>

\* The recovery of ask (advisor_routes.py) once the reply text is at hand.
AdvisorRecover ==
    /\ rec.op = "none"
    /\ LET Recovered(r) == [rec EXCEPT !.op = "advise", !.impl = "advisor",
                                        !.prev = rec.text, !.text = r.txt,
                                        !.parsed = Some(r.parsed)]
       IN  rec' = Recovered(AdvisorParse(rec.input))
    /\ UNCHANGED <<env, default_provider, default_model, reqs, orig, last, shown, ctor>>

----------------------------------------------------------------------------
(* What a vendor can answer *)

Usage(p, c, t) == [prompt_tokens |-> p, completion_tokens |-> c, total_tokens |-> t]

\* client.chat.completions.create raises an SDK exception or returns a
\* completion with a list of choices and a usage object.
OpenAIOutcomes ==
    [kind : {"raise"},
     cls : {"RateLimitError", "AuthenticationError", "APIConnectionError",
            "APITimeoutError", "InternalServerError"}]
    \cup
    [kind : {"response"},
     choices : {<<>>} \cup
               {<<[content |-> c, finish_reason |-> f]>> :
                    c \in {None, Some(""), Some("ok")}, f \in {None, Some("stop")}},
     usage : {None, Some(Usage(Some(9), Some(1), Some(10))),
              Some(Usage(Some(9), None, None)),
              Some([f \in {"prompt_tokens"} |-> Some(9)])}]

\* client.post raises a transport exception or returns an HTTP response: a
\* status and a body that is not JSON, or a JSON object with or without a
\* content list of blocks and with or without a stop_reason, which
\* ClaudeAdapter.generate never reads.
ClaudeOutcomes ==
    [kind : {"raise"}, cls : {"httpx.ConnectError", "httpx.ReadTimeout"}]
    \cup
    [kind : {"http"}, status : {401, 429, 500},
     body : {"json"}, content : {"missing"}, blocks : {<<>>}, stop_reason : {None}]
    \cup
    [kind : {"http"}, status : {200},
     body : {"not json"}, content : {"missing"}, blocks : {<<>>}, stop_reason : {None}]
    \cup
    [kind : {"http"}, status : {200},
     body : {"json"}, content : {"missing", "null"}, blocks : {<<>>}, stop_reason : {None}]
    \cup
    [kind : {"http"}, status : {200},
     body : {"json"}, content : {"list"}, stop_reason : {None, Some("end_turn")},
     blocks : {<<>>} \cup
              {<<[text |-> t, value |-> v]>> :
                   t \in {"str"}, v \in {"", "ok"}} \cup
              {<<[text |-> t, value |-> ""] >> : t \in {"missing", "null"}}]

Outcomes(vendor) == IF vendor = "openai" THEN OpenAIOutcomes ELSE ClaudeOutcomes

----------------------------------------------------------------------------
(* Arguments and environments *)

MaxMessages == 2

KeyValues == {None, Some(""), Some("sk-live")}
ProviderArgs == {None, Some(""), Some("OpenAI"), Some("claude"),
                 Some("nonexistent"), Some("Gemini")}
ModelArgs == {None, Some("gpt-4o")}
PositionalArgs == {NoInput, StrInput(""), StrInput("  "), StrInput("hi"),
                   RequestInput("caller")}
PromptArgs == {None, Some(" \n"), Some(" yo ")}
TemperatureArgs == {None, Some(0), Some(10)}
MaxTokensArgs == {None, Some(5)}

EnvValues(name) ==
    CASE name = "DEFAULT_PROVIDER" -> {None, Some("claude")}
      [] name = "DEFAULT_MODEL" -> {None, Some("env-model")}
      [] OTHER -> KeyValues

Environments ==
    {e \in [EnvNames -> KeyValues \cup {Some("claude"), Some("env-model")}] :
        \A n \in EnvNames : e[n] \in EnvValues(n)}

Credentials == {"OPENAI_API_KEY", "ANTHROPIC_API_KEY"}

\* An environment with both credentials set and no defaults.
Configured == [n \in EnvNames |-> IF n \in Credentials THEN Some("sk-live") ELSE None]

\* The message lists of the caller's Request, up to MaxMessages long.
MessageLists ==
    UNION {[1..n -> {Message("user", "Say 'ok'."), Message("user", "")}] :
              n \in 0..MaxMessages}

RequestValues ==
    {LLMRequest(ms, DefaultTemperature, None, EmptyMetadata) : ms \in MessageLists}
    \cup {LLMRequest(ms, 7, Some(10), {<<"trace", "t1">>}) : ms \in MessageLists}

----------------------------------------------------------------------------
(* Spec: provider dispatch.  Every credential state, every provider and    *)
(* model argument, every shape of input.                                   *)

Init ==
    /\ rec = NoRecovery
    /\ \E e \in Environments, ap \in {None, Some("Claude")} :
           /\ e["DEFAULT_PROVIDER"] = None /\ e["DEFAULT_MODEL"] = None
           /\ InitWith(e, ap, None, TestRequest)

Next ==
    \/ \E n \in Credentials : \E v \in KeyValues : SetEnv(n, v)
    \/ \E req \in PositionalArgs, prompt \in PromptArgs,
          provider \in ProviderArgs, model \in ModelArgs :
            Generate(req, prompt, None, None, provider, model)
    \/ \E vendor \in {"openai", "claude"}, model \in {"gpt-4o-mini", "claude-3-opus-20240229"} :
            ConstructAdapter(vendor, model)

Spec == Init /\ [][Next]_vars

----------------------------------------------------------------------------
(* SpecConfig: the stored defaults.  Every construction, the environment   *)
(* changing afterwards, calls overriding provider and model, info().       *)

InitConfig ==
    /\ rec = NoRecovery
    /\ \E e \in Environments, ap \in {None, Some("OpenAI")}, am \in {None, Some("ctor-model")} :
           InitWith(e, ap, am, TestRequest)

NextConfig ==
    \/ \E n \in EnvNames : \E v \in EnvValues(n) : SetEnv(n, v)
    \/ \E provider \in ProviderArgs, model \in ModelArgs :
            Generate(StrInput("hi"), None, None, None, provider, model)
    \/ Info

SpecConfig == InitConfig /\ [][NextConfig]_vars

----------------------------------------------------------------------------
(* SpecNormalize: what generate forwards.  Credentials set; every shape of *)
(* input with and without overrides, the same Request object reused, calls *)
(* started while another is in flight.                                     *)

Fine == [kind |-> "response",
         choices |-> <<[content |-> Some("ok"), finish_reason |-> Some("stop")]>>,
         usage |-> Some(Usage(Some(9), Some(1), Some(10)))]

InitNormalize ==
    /\ rec = NoRecovery
    /\ \E r \in RequestValues : InitWith(Configured, None, None, r)

NextNormalize ==
    \/ \E req \in PositionalArgs \ {StrInput("")}, prompt \in PromptArgs,
          temperature \in TemperatureArgs, max_tokens \in MaxTokensArgs :
            Generate(req, prompt, temperature, max_tokens, None, None)
    \/ \E body_prompt \in {"", "hi"}, body_temperature \in {None, Some(0)},
          body_max_tokens \in MaxTokensArgs :
            Chat(body_prompt, body_temperature, body_max_tokens, None, None)
    \/ Reply(Fine)

SpecNormalize == InitNormalize /\ [][NextNormalize]_vars

----------------------------------------------------------------------------
(* SpecAdapter: a call from start to end.  Credentials set, a valid        *)
(* request, either vendor, every answer the vendor can give.               *)

InitAdapter ==
    /\ rec = NoRecovery
    /\ InitWith(Configured, None, None, TestRequest)

NextAdapter ==
    \/ \E req \in {StrInput("hi"), RequestInput("caller")},
          provider \in {None, Some("OpenAI"), Some("claude")}, model \in ModelArgs :
            Generate(req, None, None, None, provider, model)
    \/ \E vendor \in {"openai", "claude"} : \E outcome \in Outcomes(vendor) :
            /\ last.adapter # None
            /\ Get(last.adapter).vendor = vendor
            /\ Reply(outcome)

SpecAdapter == InitAdapter /\ [][NextAdapter]_vars

----------------------------------------------------------------------------
(* SpecCalls: the vendor calls a generate call makes.  Every credential    *)
(* state, known and unknown providers, usable and unusable input, every    *)
(* answer of the vendor.                                                   *)

InitCalls ==
    /\ rec = NoRecovery
    /\ \E e \in Environments :
           /\ e["DEFAULT_PROVIDER"] = None /\ e["DEFAULT_MODEL"] = None
           /\ InitWith(e, None, None, TestRequest)

NextCalls ==
    \/ \E req \in {StrInput("  "), StrInput("hi"), RequestInput("caller")},
          provider \in ProviderArgs :
            Generate(req, None, None, None, provider, None)
    \/ \E vendor \in {"openai", "claude"} : \E outcome \in Outcomes(vendor) :
            /\ last.adapter # None
            /\ Get(last.adapter).vendor = vendor
            /\ Reply(outcome)

SpecCalls == InitCalls /\ [][NextCalls]_vars

----------------------------------------------------------------------------
(* Reply texts *)

MaxSegments == 4
MaxNoise == 2

RECURSIVE Concat(_)
Concat(ss) == IF ss = <<>> THEN <<>> ELSE Head(ss) \o Concat(Tail(ss))

\* Texts of fences, the word json, whitespace, backslashes and letters.
Segments == {Fence, <<"json">>, <<"\n">>, <<" ">>, <<"x">>, <<Backslash>>, <<"s">>}
TextsOf(segments, max) == {Concat(ss) : ss \in UNION {[1..n -> segments] : n \in 0..max}}

\* JSON objects of up to two members and two levels.
MemberValues == {JNum(1), JStr("a"), JObj(<<>>), JObj(<<Member("b", JNum(1))>>)}
JsonObjects ==
    {JObj(<<>>)}
    \cup {JObj(<<Member(k, v)>>) : k \in {"a", "b"}, v \in MemberValues}
    \cup {JObj(<<Member("a", v), Member("b", w)>>) : v \in MemberValues, w \in MemberValues}

\* Bodies that are no object: nothing, prose, a number, null, a string, an
\* object cut short, an object with a key twice.
OtherBodies ==
    {<<>>, <<"x">>, <<"1">>, <<"null">>, <<"\"a\"">>,
     <<"{", "\"a\"", ":", " ">>,
     <<"{", "\"a\"", ":", "1", ",", "\"a\"", ":", "null", "}">>}

\* What may trail: no closing brace in it.
Noise == UNION {[1..n -> {"x", "\n", "{", Backtick}] : n \in 0..MaxNoise}

ReplyParts(objects, bodies) ==
    {[lead |-> lead, open |-> open, gap |-> gap, body |-> JsonDumps(o),
      close |-> close, noise |-> noise, obj |-> Some(o)] :
        lead \in {<<>>, <<" ">>}, open \in {<<>>, Fence, Fence \o <<"json">>},
        gap \in {<<>>, <<"\n">>}, o \in objects,
        close \in {<<>>, Fence}, noise \in Noise}
    \cup
    {[lead |-> lead, open |-> open, gap |-> gap, body |-> body,
      close |-> close, noise |-> noise, obj |-> None] :
        lead \in {<<>>, <<" ">>}, open \in {<<>>, Fence, Fence \o <<"json">>},
        gap \in {<<>>, <<"\n">>}, body \in bodies,
        close \in {<<>>, Fence}, noise \in Noise}

----------------------------------------------------------------------------
(* SpecStrip: the fence strippers applied, once and again, to every text   *)
(* of up to MaxSegments segments.                                          *)

InitStrip ==
    /\ InitWith(Configured, None, None, TestRequest)
    /\ \E t \in TextsOf(Segments, MaxSegments) : rec = RecoveryOf([NoParts EXCEPT !.body = t])

NextStrip == \E impl \in {"concept", "advisor"} : StripFormatting(impl)

SpecStrip == InitStrip /\ [][NextStrip]_vars

----------------------------------------------------------------------------
(* SpecRecover: recovery by either caller on every reply text put together *)
(* from ReplyParts.                                                        *)

InitRecover ==
    /\ InitWith(Configured, None, None, TestRequest)
    /\ \E parts \in ReplyParts(JsonObjects, OtherBodies) : rec = RecoveryOf(parts)

NextRecover ==
    \/ ComposeConcept
    \/ AdvisorRecover

SpecRecover == InitRecover /\ [][NextRecover]_vars

----------------------------------------------------------------------------
(* SpecConstruct: Orchestrator(...) constructed again and again, with every *)
(* argument, in every state of DEFAULT_PROVIDER and DEFAULT_MODEL.         *)

NextConstruct ==
    \/ \E v \in {None, Some(""), Some("Claude"), Some("nonexistent")} :
            SetEnv("DEFAULT_PROVIDER", v)
    \/ \E v \in {None, Some(""), Some("env-model")} : SetEnv("DEFAULT_MODEL", v)
    \/ \E ap \in {None, Some(""), Some("OpenAI"), Some("claude"), Some("Gemini")},
          am \in {None, Some(""), Some("ctor-model")} :
            NewOrchestrator(ap, am)
    \/ Info

SpecConstruct == InitAdapter /\ [][NextConstruct]_vars

----------------------------------------------------------------------------
(* SpecKwargs: adapters constructed and called directly, with and without  *)
(* temperature and max_tokens among the extra keyword arguments.           *)

NextKwargs ==
    \/ \E vendor \in {"openai", "claude"}, model \in {"gpt-4o-mini", "claude-3-opus-20240229"} :
            ConstructAdapter(vendor, model)
    \/ \E t \in {DefaultTemperature, 7}, m \in {None, Some(10)},
          kwargs \in [temperature : {None, Some(5)}, max_tokens : {None, Some(7)}] :
            InvokeAdapter(LLMRequest(<<Message("user", "hi")>>, t, m, EmptyMetadata), kwargs)
    \/ \E vendor \in {"openai", "claude"} : \E outcome \in Outcomes(vendor) :
            /\ last.adapter # None
            /\ Get(last.adapter).vendor = vendor
            /\ Reply(outcome)

SpecKwargs == InitAdapter /\ [][NextKwargs]_vars

----------------------------------------------------------------------------
(* SpecChat: POST /ai/chat in every credential state, with every provider  *)
(* and model parameter and every answer of the vendor.                     *)

NextChat ==
    \/ \E body_prompt \in {"", "hi"}, body_max_tokens \in MaxTokensArgs,
          provider \in ProviderArgs, model \in ModelArgs :
            Chat(body_prompt, None, body_max_tokens, provider, model)
    \/ \E vendor \in {"openai", "claude"} : \E outcome \in Outcomes(vendor) :
            /\ last.adapter # None
            /\ Get(last.adapter).vendor = vendor
            /\ Reply(outcome)

SpecChat == InitCalls /\ [][NextChat]_vars

----------------------------------------------------------------------------
(* SpecFields: ai_compose_concept on replies whose object has one of the   *)
(* expected fields, with a value of every type.                            *)

FieldObjects ==
    {JObj(<<Member(k, v)>>) :
        k \in {"launch_sites", "bom", "report_md"},
        v \in {JNull, JNum(1), JStr("a"), JArr(<<>>), JArr(<<JStr("a")>>), JObj(<<>>)}}

InitFields ==
    /\ InitWith(Configured, None, None, TestRequest)
    /\ \E parts \in ReplyParts(FieldObjects, {<<"x">>}) : rec = RecoveryOf(parts)

NextFields == ComposeConcept

SpecFields == InitFields /\ [][NextFields]_vars

----------------------------------------------------------------------------
(* SpecCompose: ai_compose_concept from the construction of its             *)
(* Orchestrator to its result, with either vendor as the default provider, *)
(* the vendor answering with a reply text, with no text or failing.        *)

ComposeOutcomes(vendor) ==
    IF vendor = "openai"
    THEN {Fine, [Fine EXCEPT !.choices = <<[content |-> None, finish_reason |-> None]>>],
          [kind |-> "raise", cls |-> "RateLimitError"]}
    ELSE {o \in ClaudeOutcomes :
            \/ o.kind = "raise" /\ o.cls = "httpx.ReadTimeout"
            \/ o.kind = "http" /\ o.content = "list" /\ Len(o.blocks) = 1
               /\ o.blocks[1].text = "str" /\ o.stop_reason = None}

InitCompose ==
    /\ \E dp \in {None, Some("claude")} :
           InitWith([Configured EXCEPT !["DEFAULT_PROVIDER"] = dp], None, None, TestRequest)
    /\ \E parts \in ReplyParts({JObj(<<Member("a", JNum(1))>>),
                                 JObj(<<Member("launch_sites", JArr(<<JStr("a")>>)),
                                        Member("bom", JObj(<<Member("b", JNum(1))>>))>>)},
                                {<<"x">>}) :
           rec = RecoveryOf(parts)

NextCompose ==
    \/ ComposeStart
    \/ \E vendor \in {"openai", "claude"} : \E outcome \in ComposeOutcomes(vendor) :
            /\ last.adapter # None
            /\ Get(last.adapter).vendor = vendor
            /\ ComposeResume(outcome)

SpecCompose == InitCompose /\ [][NextCompose]_vars

----------------------------------------------------------------------------
(* SpecAsk: POST /advisor/ask in every credential state, for every reply   *)
(* the LLM would give.                                                     *)

InitAsk ==
    /\ \E e \in Environments :
           /\ e["DEFAULT_PROVIDER"] = None /\ e["DEFAULT_MODEL"] = None
           /\ e["ANTHROPIC_API_KEY"] = None
           /\ InitWith(e, None, None, TestRequest)
    /\ \E parts \in ReplyParts({JObj(<<Member("answer_md", JStr("a"))>>),
                                 JObj(<<Member("a", JNum(1))>>)},
                                {<<>>, <<"x">>}) :
           rec = RecoveryOf(parts)

NextAsk == \E model \in ModelArgs : Ask(model)

SpecAsk == InitAsk /\ [][NextAsk]_vars

----------------------------------------------------------------------------
(* Vocabulary of the claims *)

\* The kind of the documented taxonomy an exception stands for, "untyped"
\* when it stands for none.
KindOf(e) ==
    CASE e.type = "ValueError" /\ e.msg = UnknownProvider("").msg -> "UnknownProvider"
      [] e.type = "ValueError" /\ e.msg = InvalidRequest.msg -> "InvalidRequest"
      [] e.type = "RuntimeError" /\ e.msg = ConfigurationError("").msg -> "ConfigurationError"
      [] e.type = "RuntimeError" /\ e.msg = RateLimited("").msg -> "RateLimited"
      [] e.type = "RuntimeError" /\ e.msg = AuthenticationFailed("").msg -> "AuthenticationFailed"
      [] e.type = "RuntimeError" /\ e.msg = ConnectionFailed("").msg -> "ConnectionFailed"
      [] e.type = "RuntimeError" /\ e.msg \in {VendorError("").msg, UnexpectedError("").msg}
            -> "VendorError"
      [] OTHER -> "untyped"

\* The call of record c failed with an error of kind k.
FailedWith(c, k) == c.pc = "raised" /\ c.error # None /\ KindOf(Get(c.error)) = k

\* Nothing of the call of record c went to an adapter or a vendor.
NothingSent(c) == c.forwarded = None /\ c.sent = None /\ c.calls = 0

BlankStrings == {"", "  ", " \n"}

\* The call of record c was given no Request and at least one string, and
\* every string it was given is empty or whitespace.
BlankInput(c) ==
    /\ c.req.kind # "request"
    /\ c.req.kind = "str" \/ c.prompt # None
    /\ c.req.kind = "str" => c.req.s \in BlankStrings
    /\ c.prompt # None => Get(c.prompt) \in BlankStrings

\* The vendor a provider argument selects, given the stored default.
Selected(provider) ==
    IF provider \in {None, Some("")} THEN default_provider
    ELSE CASE provider \in {Some("OpenAI"), Some("openai")} -> "openai"
           [] provider \in {Some("Claude"), Some("CLAUDE"), Some("claude")} -> "claude"
           [] OTHER -> "other"

CredentialOf(vendor) ==
    IF vendor = "openai" THEN "OPENAI_API_KEY" ELSE "ANTHROPIC_API_KEY"

\* This step is a call being made (not a vendor answering one).
CallStep == last' # last /\ last'.outcome = None

----------------------------------------------------------------------------
(* Claims *)

\* C1: Orchestrator.generate called with a provider name outside the closed
\* vendor set fails with UnknownProvider whatever the input, the model and
\* the credentials are, and nothing goes to an adapter or a vendor.
C1_UnknownProviderFails ==
    (/\ last.op = "generate"
     /\ last.provider \in {Some("nonexistent"), Some("Gemini")})
    => /\ FailedWith(last, "UnknownProvider")
       /\ last.adapter = None
       /\ NothingSent(last)

C1_Witness ==
    /\ last.op = "generate"
    /\ last.provider = Some("Gemini")
    /\ last.req = RequestInput("caller")
    /\ last.model = Some("gpt-4o")
    /\ \A n \in Credentials : env[n] = Some("sk-live")
    /\ FailedWith(last, "UnknownProvider")

\* C2 as stated: every generate call whose input is an empty or whitespace
\* string and no Request fails with InvalidRequest and forwards nothing, for
\* every provider argument and every credential state.
C2_BlankInputIsInvalidRequest ==
    (last.op = "generate" /\ BlankInput(last))
    => FailedWith(last, "InvalidRequest") /\ NothingSent(last)

\* C2 as amended: such a call always fails and forwards nothing; the adapter
\* is selected first, so the failure is UnknownProvider when the provider
\* is not a known vendor, ConfigurationError when the vendor's credential is
\* unset or empty, and InvalidRequest in every other case.
C2_BlankInputFails ==
    [][(CallStep /\ last'.op = "generate" /\ BlankInput(last'))
       => /\ NothingSent(last')
          /\ LET v == Selected(last'.provider)
             IN  IF v \notin KnownVendors
                 THEN FailedWith(last', "UnknownProvider")
                 ELSE IF env[CredentialOf(v)] \in {None, Some("")}
                 THEN FailedWith(last', "ConfigurationError")
                 ELSE FailedWith(last', "InvalidRequest")]_vars

C2_Witness ==
    /\ last.op = "generate"
    /\ last.req = StrInput("  ")
    /\ last.prompt = Some(" \n")
    /\ last.provider = Some("claude")
    /\ last.adapter # None
    /\ FailedWith(last, "InvalidRequest")

\* C3: constructing an adapter, directly or through Orchestrator.generate,
\* while the vendor's credential variable is unset or empty fails with
\* ConfigurationError at construction, and no vendor call is made.
C3_MissingCredentialFails ==
    [][\A v \in KnownVendors :
        (/\ CallStep
         /\ \/ last'.op = "adapter" /\ last'.provider = Some(v)
            \/ last'.op = "generate" /\ Selected(last'.provider) = v
         /\ env[CredentialOf(v)] \in {None, Some("")})
        => /\ FailedWith(last', "ConfigurationError")
           /\ Get(last'.error).arg = CredentialOf(v)
           /\ last'.adapter = None
           /\ NothingSent(last')]_vars

C3_Witness ==
    /\ last.op = "generate"
    /\ last.req = StrInput("hi")
    /\ last.provider = Some("OpenAI")
    /\ env["OPENAI_API_KEY"] = Some("")
    /\ env["ANTHROPIC_API_KEY"] = Some("sk-live")
    /\ last.error = Some(ConfigurationError("OPENAI_API_KEY"))

\* The call of record c has ended: it returned or it raised.
Ended(c) == c.op \in {"generate", "chat"} /\ c.pc \in {"returned", "raised"}

\* The vendor replied: the SDK returned a completion, or the HTTP response
\* has a success status.
Replied(outcome) ==
    \/ outcome.kind = "response"
    \/ outcome.kind = "http" /\ outcome.status < 400

\* C4 as stated: for every valid Request and every reply of the vendor,
\* partial replies included, generate returns a Response whose text is a
\* string or raises an error of the documented taxonomy, with either
\* adapter.
C4_ResponseOrTaxonomyError ==
    (/\ Ended(last)
     /\ last.outcome # None
     /\ Replied(Get(last.outcome)))
    => \/ /\ last.pc = "returned"
          /\ last.result # None
          /\ Get(last.result).text \in STRING
       \/ /\ last.pc = "raised"
          /\ last.error # None
          /\ KindOf(Get(last.error)) # "untyped"

\* The kind of the taxonomy the cause of a vendor failure calls for.
Cause(outcome) ==
    CASE outcome.kind = "raise" /\ outcome.cls = "RateLimitError" -> "RateLimited"
      [] outcome.kind = "raise" /\ outcome.cls = "AuthenticationError" -> "AuthenticationFailed"
      [] outcome.kind = "raise" /\ outcome.cls \in {"APIConnectionError", "APITimeoutError",
                                                   "httpx.ConnectError", "httpx.ReadTimeout"}
            -> "ConnectionFailed"
      [] outcome.kind = "http" /\ outcome.status = 429 -> "RateLimited"
      [] outcome.kind = "http" /\ outcome.status = 401 -> "AuthenticationFailed"
      [] OTHER -> "VendorError"

\* The vendor failed: the SDK or the HTTP client raised, or the vendor
\* answered with an error status.
VendorFailed(outcome) ==
    \/ outcome.kind = "raise"
    \/ outcome.kind = "http" /\ outcome.status >= 400

\* C5 as stated: every vendor failure during Adapter.generate reaches the
\* caller as the one error kind of RateLimited, AuthenticationFailed,
\* ConnectionFailed, VendorError that matches its cause, with either adapter.
C5_VendorFailureTranslated ==
    (/\ Ended(last)
     /\ last.outcome # None
     /\ VendorFailed(Get(last.outcome)))
    => FailedWith(last, Cause(Get(last.outcome)))

\* C6 as stated: every request generate forwards to an adapter has at least
\* one message, and not only empty or blank content.
C6_NoEmptyPromptForwarded ==
    last.forwarded # None
    => LET ms == Get(last.forwarded).messages
       IN  /\ Len(ms) >= 1
           /\ \E i \in 1..Len(ms) : ms[i].content \notin BlankStrings

\* The defaults Orchestrator(...) resolved when it was constructed.
AtConstruction ==
    Construct(ctor.default_provider, ctor.default_model,
              [n \in {"DEFAULT_PROVIDER", "DEFAULT_MODEL"} |-> ctor[n]])

\* C7: the stored defaults never change, whatever generate calls are made
\* with whatever overrides and however the environment changes; info()
\* returns the pair resolved at construction and changes nothing else.
C7_DefaultsFixed ==
    [][/\ default_provider' = AtConstruction.default_provider
       /\ default_model' = AtConstruction.default_model
       /\ shown' # shown
            => /\ shown' = Some(AtConstruction)
               /\ UNCHANGED <<env, default_provider, default_model, reqs, orig, last>>]_vars

C7_Witness ==
    /\ shown = Some([default_provider |-> "openai", default_model |-> "gpt-4o-mini"])
    /\ last.op = "generate"
    /\ last.pc = "awaiting"
    /\ last.provider = Some("claude")
    /\ last.model = Some("gpt-4o")
    /\ ctor.default_provider = None /\ ctor.default_model = None
    /\ ctor.DEFAULT_PROVIDER = None /\ ctor.DEFAULT_MODEL = None
    /\ env["DEFAULT_PROVIDER"] = Some("claude")
    /\ env["DEFAULT_MODEL"] = Some("env-model")

\* C8: when the input of generate is a Request, the request forwarded has
\* the caller's temperature if one was passed and else the Request's own,
\* likewise max_tokens, and the Request's messages and metadata.
C8_RequestOverrides ==
    (/\ last.op \in {"generate", "chat"}
     /\ last.req.kind = "request"
     /\ last.forwarded # None)
    => LET f == Get(last.forwarded)
           r == Get(last.was)
       IN  /\ f.temperature = IF last.temperature # None
                              THEN Get(last.temperature) ELSE r.temperature
           /\ f.max_tokens = IF last.max_tokens # None
                             THEN last.max_tokens ELSE r.max_tokens
           /\ f.messages = r.messages
           /\ f.metadata = r.metadata

C8_Witness ==
    /\ last.op = "generate"
    /\ last.req = RequestInput("caller")
    /\ last.temperature = Some(0)
    /\ last.max_tokens = None
    /\ last.forwarded # None
    /\ Get(last.was).temperature = 7
    /\ Get(last.was).max_tokens = Some(10)
    /\ Len(Get(last.was).messages) = 2

\* C9 as stated: an override passed to one generate call affects only that
\* call; a call given the same Request object without an override forwards
\* the temperature and max_tokens the Request was created with.
C9_OverrideIsPerCall ==
    (/\ last.op = "generate"
     /\ last.req.kind = "request"
     /\ last.temperature = None /\ last.max_tokens = None
     /\ Len(orig[last.req.ref].messages) >= 1
     /\ orig[last.req.ref].messages[1].content \notin BlankStrings
     /\ last.forwarded # None)
    => /\ Get(last.forwarded).temperature = orig[last.req.ref].temperature
       /\ Get(last.forwarded).max_tokens = orig[last.req.ref].max_tokens

\* The string a call without a Request is about: the prompt keyword when it
\* is not blank, else the positional string.
InputString(c) ==
    IF c.prompt # None /\ Get(c.prompt) \notin BlankStrings
    THEN Get(c.prompt) ELSE c.req.s

\* C10: for a string input that is not blank, the request forwarded has one
\* message, of role user and with the input string as its content, the
\* temperature passed or else 0.2, and the max_tokens passed or else none.
C10_StringWrapped ==
    (/\ last.op = "generate"
     /\ last.req.kind # "request"
     /\ InputString(last) \notin BlankStrings)
    => /\ last.forwarded # None
       /\ LET f == Get(last.forwarded)
          IN  /\ f.messages = <<[role |-> "user", content |-> InputString(last)]>>
              /\ f.temperature = IF last.temperature # None
                                 THEN Get(last.temperature) ELSE 2
              /\ f.max_tokens = last.max_tokens

C10_Witness ==
    /\ last.op = "generate"
    /\ last.req = StrInput("hi")
    /\ last.prompt = Some(" yo ")
    /\ last.temperature = None
    /\ last.max_tokens = Some(5)
    /\ last.forwarded # None
    /\ Get(last.forwarded).messages[1].content = " yo "

C12_AdapterErrorPropagates ==
    (last.op \in {"generate", "chat"} /\ last.adapter_error # None)
    => /\ last.pc = "raised"
       /\ last.error = last.adapter_error
       /\ last.result = None

C12_Witness ==
    /\ last.op = "generate"
    /\ Get(last.adapter).vendor = "openai"
    /\ last.adapter_error = Some(RateLimited("RateLimitError"))
    /\ last.error = Some(RateLimited("RateLimitError"))

UsageFields == {"prompt_tokens", "completion_tokens", "total_tokens"}

\* The usage data of a vendor's answer, None when the adapter reads none.
OutcomeUsage(outcome) ==
    IF "usage" \in DOMAIN outcome THEN outcome.usage ELSE None

\* The vendor's answer gives no number for token-count field f.
Unavailable(outcome, f) ==
    LET u == OutcomeUsage(outcome)
    IN  u = None \/ f \notin DOMAIN Get(u) \/ Get(u)[f] = None

\* The vendor's answer has everything but, possibly, usage data.
CompleteReply(outcome) ==
    \/ outcome.kind = "response" /\ Len(outcome.choices) >= 1
    \/ /\ outcome.kind = "http" /\ outcome.status = 200 /\ outcome.body = "json"
       /\ outcome.content = "list" /\ Len(outcome.blocks) >= 1
       /\ outcome.blocks[1].text = "str"

\* C13 as stated: when the vendor's reply has no usage data, or a
\* token-count field that is absent or null, generate still returns a
\* Response, in which each unavailable field is 0 or omitted.
C13_UsageNeverFails ==
    (/\ Ended(last)
     /\ last.outcome # None
     /\ CompleteReply(Get(last.outcome)))
    => /\ last.pc = "returned"
       /\ \A f \in UsageFields :
            Unavailable(Get(last.outcome), f)
            => \/ f \notin DOMAIN Get(last.result).usage
               \/ Get(last.result).usage[f] = 0

\* The vendor did not answer within the timeout of the HTTP client.
TimedOut(outcome) ==
    outcome.kind = "raise" /\ outcome.cls \in {"APITimeoutError", "httpx.ReadTimeout"}

\* C14 as stated: a call in flight whose vendor has not answered when the
\* timeout expires is ended with ConnectionFailed, with either adapter.
C14_TimeoutIsConnectionFailed ==
    (last.outcome # None /\ TimedOut(Get(last.outcome)))
    => /\ Ended(last)
       /\ FailedWith(last, "ConnectionFailed")

\* C15 as stated: strip_formatting is idempotent; stripping the fences of a
\* text already stripped changes nothing, for the stripper of the concept
\* composer and for that of the advisor route.
C15_StripIdempotent ==
    (rec.op = "strip" /\ rec.applied = 2) => rec.text = rec.prev

\* The text has a leading fence (three backticks, the word json or not) and
\* a trailing fence that is not part of the leading one.
HasBothFences(s) ==
    /\ StartsWith(s, Fence)
    /\ EndsWith(s, Fence)
    /\ Len(s) >= 6
    /\ (Len(s) >= 4 /\ s[4] = "json") => Len(s) >= 7

\* What is between the leading and the trailing fence.
BetweenFences(s) ==
    DropLast(Drop(s, IF s[4] = "json" THEN 4 ELSE 3), 3)

\* C16 as stated: strip_formatting removes the leading and the trailing
\* fence when the text has both, and returns every other text untouched.
C16_StripOnlyBothFences ==
    (rec.op = "strip" /\ rec.applied = 1)
    => IF HasBothFences(rec.input)
       THEN TextStrip(rec.text) = TextStrip(BetweenFences(rec.input))
       ELSE rec.text = rec.input

\* C17 as stated: a reply made of an opening fence (with or without json),
\* a newline, a JSON object, a newline and a closing fence recovers to that
\* object, in the recovery of the concept composer and of the advisor route.
C17_FencedObjectRecovered ==
    (/\ rec.op \in {"compose", "advise"}
     /\ rec.parts.obj # None
     /\ rec.parts.open # <<>>
     /\ rec.parts.gap = <<"\n">>
     /\ rec.parts.close = Fence
     /\ rec.parts.noise = <<>>)
    => /\ rec.error = None
       /\ rec.parsed = rec.parts.obj

\* C18: for a JSON object o and a trailing text t without a closing brace,
\* the recovery parse of json.dumps(o) followed by t gives o.
C18_TrailingTextRecovered ==
    (/\ rec.op = "compose"
     /\ rec.parts.obj # None
     /\ rec.parts.lead = <<>> /\ rec.parts.open = <<>>
     /\ rec.parts.gap = <<>> /\ rec.parts.close = <<>>)
    => /\ rec.error = None
       /\ rec.parsed = rec.parts.obj

C18_Witness ==
    /\ rec.op = "compose"
    /\ rec.parts.obj = Some(JObj(<<Member("a", JObj(<<Member("b", JNum(1))>>)),
                                   Member("b", JStr("a"))>>))
    /\ rec.input = JsonDumps(Get(rec.parts.obj)) \o <<"x", "{">>
    /\ rec.parsed = rec.parts.obj

\* json.loads accepts neither the text nor the text up to its last closing
\* brace.
NotJson(txt) ==
    /\ JsonLoads(txt).tag = "raise"
    /\ RFind(txt, "}") # 0 => JsonLoads(SubSeq(txt, 1, RFind(txt, "}"))).tag = "raise"

\* C19: no reply text makes the recovery of the concept composer raise, and
\* for a text that is not JSON, also up to its last closing brace, the
\* recovery parse gives None.
C19_MissIsNoneNotRaise ==
    rec.op = "compose"
    => /\ rec.error = None
       /\ NotJson(rec.text) => rec.parsed = None

C19_Witness ==
    /\ rec.op = "compose"
    /\ rec.parts.body = <<"{", "\"a\"", ":", " ">>
    /\ rec.parts.open = Fence
    /\ rec.parts.noise = <<"x">>
    /\ rec.error = None
    /\ rec.parsed = None

\* C20: when the recovery parse gives None, or a value that is no object,
\* ai_compose_concept raises nothing and returns the skeleton: the note,
\* no launch sites, no lunar sites, an empty bill of materials in USD of
\* total cost 0, no citations.
C20_SkeletonOnMiss ==
    rec.op = "compose"
    => /\ rec.error = None
       /\ (rec.parsed = None \/ ~IsObj(Get(rec.parsed)))
            => /\ rec.out # None
               /\ \A k \in {"note", "launch_sites", "lunar_sites", "bom", "citations"} :
                    HasKey(Get(rec.out), k)
               /\ Lookup(Get(rec.out), "note") = JStr("AI-Compose failed to return valid JSON")
               /\ Lookup(Get(rec.out), "launch_sites") = JArr(<<>>)
               /\ Lookup(Get(rec.out), "lunar_sites") = JArr(<<>>)
               /\ Lookup(Get(rec.out), "citations") = JArr(<<>>)
               /\ Lookup(Get(rec.out), "bom") =
                    JObj(<<Member("currency", JStr("USD")), Member("items", JArr(<<>>)),
                           Member("total_est_cost", JNum(0))>>)

C20_Witness ==
    /\ rec.op = "compose"
    /\ rec.input = <<"1">>
    /\ rec.parsed = Some(JNum(1))
    /\ rec.out # None
    /\ HasKey(Get(rec.out), "note")

\* Orchestrator(...) was called with these arguments in this environment.
Constructed(ap, am, dp, dm) ==
    /\ ctor.default_provider = ap /\ ctor.default_model = am
    /\ ctor.DEFAULT_PROVIDER = dp /\ ctor.DEFAULT_MODEL = dm

\* C22 as stated: constructing an Orchestrator never fails, and
\* default_provider is the explicit argument if one was given (an empty
\* string taken as none), else the
\* value of DEFAULT_PROVIDER if set, else "openai"; default_model likewise
\* with DEFAULT_MODEL and "gpt-4o-mini".
C22_DefaultsAsGiven ==
    /\ ctor.error = None
    /\ default_provider =
         IF ctor.default_provider \notin {None, Some("")} THEN Get(ctor.default_provider)
         ELSE IF ctor.DEFAULT_PROVIDER # None THEN Get(ctor.DEFAULT_PROVIDER)
         ELSE "openai"
    /\ default_model =
         IF ctor.default_model \notin {None, Some("")} THEN Get(ctor.default_model)
         ELSE IF ctor.DEFAULT_MODEL # None THEN Get(ctor.DEFAULT_MODEL)
         ELSE "gpt-4o-mini"

\* The lower-case form of the provider names in use.
LowerCased(x) ==
    CASE x \in {"OpenAI", "openai"} -> "openai"
      [] x \in {"Claude", "claude"} -> "claude"
      [] x = "Gemini" -> "gemini"
      [] OTHER -> x

\* C22 as amended: constructing an Orchestrator never fails, not even with
\* a provider that is no known vendor; default_provider is the lower-cased
\* explicit argument when that is a non-empty string, else the lower-cased
\* value of DEFAULT_PROVIDER when the variable is set (the empty string when
\* it is set to that), else "openai"; default_model is the explicit
\* argument when that is a non-empty string, else the value of
\* DEFAULT_MODEL when it is set, else "gpt-4o-mini".
C22_DefaultsResolved ==
    /\ ctor.error = None
    /\ default_provider =
         LowerCased(IF ctor.default_provider \notin {None, Some("")}
                    THEN Get(ctor.default_provider)
                    ELSE IF ctor.DEFAULT_PROVIDER # None THEN Get(ctor.DEFAULT_PROVIDER)
                    ELSE "openai")
    /\ default_model =
         IF ctor.default_model \notin {None, Some("")} THEN Get(ctor.default_model)
         ELSE IF ctor.DEFAULT_MODEL # None THEN Get(ctor.DEFAULT_MODEL)
         ELSE "gpt-4o-mini"

C22_Witness ==
    /\ Constructed(Some("Gemini"), Some(""), Some("Claude"), Some("env-model"))
    /\ ctor.error = None
    /\ default_provider = "gemini"
    /\ default_model = "env-model"

\* C23: the message list an adapter sends to its vendor has the length of
\* the message list of the Request it was given, and at each position the
\* role and the content of the message at that position.
C23_MessagesSentAsGiven ==
    (last.op = "generate" /\ last.forwarded # None /\ last.sent # None)
    => LET given == Get(last.forwarded).messages
           sent == Get(last.sent).messages
       IN  /\ Len(sent) = Len(given)
           /\ \A i \in 1..Len(given) :
                /\ sent[i].role = given[i].role
                /\ sent[i].content = given[i].content

C23_Witness ==
    /\ last.op = "generate"
    /\ Get(last.adapter).vendor = "claude"
    /\ last.sent # None
    /\ Len(Get(last.forwarded).messages) = 2
    /\ Get(last.sent).messages[1] = [role |-> "system", content |-> "You are terse."]
    /\ Get(last.sent).messages[2] = [role |-> "user", content |-> "Say 'ok'."]

\* The reason code in the vendor's reply: finish_reason of the first choice
\* (OpenAI), stop_reason of the message (Anthropic).
ReportedReason(outcome) ==
    IF outcome.kind = "response" THEN outcome.choices[1].finish_reason
    ELSE outcome.stop_reason

\* C24 as stated: the finish_reason of the Response an adapter returns is
\* the reason code the vendor reported for the reply, and is absent only
\* when the vendor reported none.
C24_FinishReasonPassedThrough ==
    (Ended(last) /\ last.pc = "returned")
    => Get(last.result).finish_reason = ReportedReason(Get(last.outcome))

\* The vendor and the model a call of record c is to be served by.
EffectiveModel(c) ==
    IF c.model \notin {None, Some("")} THEN Get(c.model) ELSE default_model

\* C30: the adapter serving a generate call is that of the per-call
\* provider, matched without regard to case, else of the stored default,
\* and is bound to the per-call model if one is given, else to
\* default_model, also when only the provider is overridden; the Response
\* returned has that model as its model_name.
C30_AdapterBoundToProviderAndModel ==
    (last.op = "generate" /\ last.adapter # None)
    => /\ Get(last.adapter).vendor = Selected(last.provider)
       /\ Get(last.adapter).model = EffectiveModel(last)
       /\ last.pc = "returned" => Get(last.result).model_name = Some(EffectiveModel(last))

C30_Witness ==
    /\ last.op = "generate"
    /\ last.provider = Some("claude")
    /\ last.model = None
    /\ default_provider = "openai"
    /\ last.pc = "returned"
    /\ Get(last.adapter) = [vendor |-> "claude", model |-> "gpt-4o-mini"]
    /\ Get(last.result).model_name = Some("gpt-4o-mini")

\* The one user message a string is wrapped as.
AsUserMessage(x) == <<[role |-> "user", content |-> x]>>

\* C29: a Request argument wins, and a prompt keyword given with it is
\* ignored; without a Request a prompt keyword that is not blank wins over
\* a positional string; a blank or missing prompt keyword falls back to a
\* positional string that is not blank; the call fails, with
\* InvalidRequest and nothing forwarded, exactly when none of the three is
\* usable.
C29_InputShapePriority ==
    last.op = "generate"
    => IF last.req.kind = "request"
       THEN /\ last.forwarded # None
            /\ Get(last.forwarded).messages = Get(last.was).messages
       ELSE IF last.prompt # None /\ Get(last.prompt) \notin BlankStrings
       THEN /\ last.forwarded # None
            /\ Get(last.forwarded).messages = AsUserMessage(Get(last.prompt))
       ELSE IF last.req.kind = "str" /\ last.req.s \notin BlankStrings
       THEN /\ last.forwarded # None
            /\ Get(last.forwarded).messages = AsUserMessage(last.req.s)
       ELSE /\ FailedWith(last, "InvalidRequest")
            /\ last.forwarded = None

C29_Witness ==
    /\ last.op = "generate"
    /\ last.req = RequestInput("caller")
    /\ last.prompt = Some(" yo ")
    /\ last.forwarded # None
    /\ Len(Get(last.was).messages) = 2
    /\ Get(last.forwarded).messages = Get(last.was).messages

\* The call of record c gave temperature, or max_tokens, both in the
\* Request and as an extra keyword argument.
GivenTwice(c) ==
    \/ c.kwargs.temperature # None
    \/ c.kwargs.max_tokens # None /\ Get(c.forwarded).max_tokens # None

\* C28 as stated: when OpenAIAdapter.generate is given temperature or
\* max_tokens both in the Request and as an extra keyword argument, one
\* vendor call is made, with the temperature and max_tokens of the Request,
\* and the call does not fail because of the duplicate.
C28_RequestValueTakesPrecedence ==
    (/\ last.op = "adapter.generate"
     /\ Get(last.adapter).vendor = "openai"
     /\ GivenTwice(last))
    => /\ last.calls = 1
       /\ last.sent # None
       /\ Get(last.sent).temperature = Get(last.forwarded).temperature
       /\ Get(last.forwarded).max_tokens # None
            => Get(last.sent).max_tokens = Get(last.forwarded).max_tokens
       /\ last.outcome = None => last.pc = "awaiting"

\* C27: POST /ai/chat answers a generate call that raised, whatever the
\* cause, with an HTTP error whose detail is the message of the error and
\* with no body, and a generate call that returned with a body of the
\* Response's text, usage, model_name and finish_reason.
C27_ChatErrorOrBody ==
    (last.op = "chat" /\ last.pc \in {"raised", "returned"})
    => /\ last.http # None
       /\ last.pc = "raised"
            => /\ Get(last.http).status >= 400
               /\ Get(last.http).body = None
               /\ Get(last.http).detail =
                    Some([msg |-> Get(last.error).msg, arg |-> Get(last.error).arg])
       /\ last.pc = "returned"
            => /\ Get(last.http).status = 200
               /\ Get(last.http).body # None
               /\ LET body == Get(Get(last.http).body)
                      resp == Get(last.result)
                  IN  /\ DOMAIN body = {"text", "usage", "model_name", "finish_reason"}
                      /\ body.text = resp.text
                      /\ body.usage = resp.usage
                      /\ body.model_name = resp.model_name
                      /\ body.finish_reason = resp.finish_reason

C27_Witness ==
    /\ last.op = "chat"
    /\ last.pc = "raised"
    /\ last.outcome = Some([kind |-> "raise", cls |-> "AuthenticationError"])
    /\ last.http = Some([status |-> 500, body |-> None,
                         detail |-> Some([msg |-> "Authentication failed: ",
                                          arg |-> "AuthenticationError"])])

\* The expected top-level fields of a concept and the documented type of
\* each: a sequence, a mapping, or a string or null.
ExpectedFields ==
    {"launch_sites", "lunar_sites", "bom", "citations", "report_md", "assumptions",
     "risks", "alternatives", "next_steps", "key_numbers", "regulatory_flags",
     "ops_checklist"}

HasDocumentedType(k, v) ==
    IF k = "bom" THEN DOMAIN v = {"obj"}
    ELSE IF k = "report_md" THEN DOMAIN v \in {{"str"}, {"null"}}
    ELSE DOMAIN v = {"arr"}

WellFormedObject(parts) ==
    /\ parts.obj # None
    /\ parts.noise = <<>>
    /\ (parts.open = <<>>) = (parts.close = <<>>)
    /\ parts.open # <<>> => parts.gap = <<"\n">>

\* C25 as stated: whenever the Response Orchestrator.generate returns has
\* a text that is a well-formed JSON object, code-fenced or not,
\* ai_compose_concept recovers that object from the text and returns its
\* launch_sites, lunar_sites and bom; the result is the skeleton only when
\* the text itself does not parse.
C25_ResponseTextRecovered ==
    (/\ rec.op = "compose"
     /\ last.op = "compose" /\ last.pc = "returned"
     /\ Get(last.result).text # ""
     /\ WellFormedObject(rec.parts))
    => /\ rec.error = None
       /\ rec.parsed = rec.parts.obj
       /\ ~HasKey(Get(rec.out), "note")
       /\ \A k \in {"launch_sites", "lunar_sites", "bom"} :
            HasKey(Get(rec.parts.obj).obj, k)
            => Lookup(Get(rec.out), k) = Lookup(Get(rec.parts.obj).obj, k)

\* The answer the advisor route is to give for a reply text: the object
\* of the text when it is JSON with answer_md, else the text as answer_md,
\* "_No advisor output._" for an empty text, and nothing else.
AdvisorAnswerFor(text) ==
    LET raw == TextStrip(text)
        v == JsonLoads(AdvisorStripCodeFences(raw))
    IN  IF v.tag = "return" /\ IsObj(v.val) /\ HasKey(v.val.obj, "answer_md")
        THEN [answer_md |-> <<Lookup(v.val.obj, "answer_md").str>>,
              actions |-> <<>>, clarifying_questions |-> <<>>]
        ELSE [answer_md |-> IF raw = <<>> THEN <<"_No advisor output._">> ELSE raw,
              actions |-> <<>>, clarifying_questions |-> <<>>]

\* C26 as stated: for every reply the LLM gives, POST /advisor/ask answers
\* with an AdvisorResponse and no error: the parsed object when the reply
\* is JSON with answer_md, else the reply text wrapped as answer_md with
\* empty actions and clarifying_questions.
C26_AdvisorAnswers ==
    last.op = "ask"
    => /\ last.http # None
       /\ Get(last.http).status = 200
       /\ Get(last.http).body = Some([answer |-> AdvisorAnswerFor(rec.input)])

====
